---- MODULE Spec2Model ----
(***************************************************************************)
(* Reticulum-rs: the channel envelope codec, the Channel (windowed send,   *)
(* ordered receive) and the Transport's inbound pipeline with its          *)
(* duplicate filter, modelled from src/src/channel.rs,                     *)
(* src/src/transport.rs and src/src/transport/path_requests.rs.            *)
(*                                                                         *)
(* Several specifications share the module, each over its own group of    *)
(* variables (the other groups stay at their idle values):                 *)
(*   SpecEnv     envelope_raw / deenvelope_raw as pure functions           *)
(*   SpecTp      Transport: packet task, duplicate filter, dispatch        *)
(*   SpecFilter  the handler called directly, as tests::drop_duplicates    *)
(*   Spec        Channel: send, callbacks, and the peer's receive          *)
(*   SpecRx      Channel receive alone, started shortly before the 16-bit  *)
(*               wrap of the sequence counter                              *)
(*   SpecTx      Channel send alone, with the delivery and timeout         *)
(*               callbacks of its packets                                  *)
(*   SpecCb      the message handlers of a Channel                         *)
(*   SpecLink    Transport::link, find_out_link, find_in_link and the      *)
(*               handlers of link requests and proofs                      *)
(*   SpecCancel  the loops manage_transport spawns and the cancellation    *)
(*               token, with weak fairness of every spawned task           *)
(*   SpecCheck   links ageing, the 1 s link check and the keep-alive       *)
(*               exchange                                                  *)
(*   SpecLock    the locks taken by concurrent senders, callbacks and      *)
(*               transport tasks, each in the order of its code            *)
(*   SpecAdj     adjust_params and the timeout callback over a run of      *)
(*               deliveries with the round-trip time of each               *)
(*   SpecPop     delivered and timeout callbacks racing on the tx-ring     *)
(*   SpecRace    Transport::link called from two tasks                     *)
(*   SpecEcho    the transport sends, and what it sent comes back          *)
(*   SpecKeep    keep-alive packets arriving at the packet task            *)
(*   SpecPath    PathRequests: generate and decode                         *)
(***************************************************************************)
EXTENDS Integers, Sequences, FiniteSets, TLC

\* ------------------------------------------------------------------------
\* Option<T>: None is the empty sequence, Some(x) the one-element sequence.
None == <<>>
Some(x) == <<x>>
is_some(o) == o /= <<>>
unwrap_or(o, d) == IF o = <<>> THEN d ELSE o[1]

\* u16 arithmetic: SEQ_MAX is the largest u16, U16 the modulus
SEQ_MAX == 65535
U16 == SEQ_MAX + 1

\* ------------------------------------------------------------------------
\* Envelope codec (channel.rs)

\* u16::to_le_bytes / u16::from_le_bytes, and the big-endian pair
to_le_bytes(x) == <<x % 256, x \div 256>>
to_be_bytes(x) == <<x \div 256, x % 256>>
from_le_bytes(a, b) == a + 256 * b
from_be_bytes(a, b) == 256 * a + b

envelope_raw(data, message_type, sequence) ==
    LET raw_size == Len(data)
    IN  to_le_bytes(message_type)
            \o to_le_bytes(unwrap_or(sequence, 0))
            \o to_le_bytes(raw_size % U16)
            \o data

Ok3(t, s, z) == [tag |-> "Ok", message_type |-> t, sequence |-> s, size |-> z]
ErrMisc == [tag |-> "Err", message_type |-> 0, sequence |-> 0, size |-> 0]

\* mutant: the header read big-endian while envelope_raw writes little-endian
deenvelope_raw_be(data) ==
    IF Len(data) < 6
    THEN ErrMisc
    ELSE Ok3(from_be_bytes(data[1], data[2]),
             from_be_bytes(data[3], data[4]),
             from_be_bytes(data[5], data[6]))

deenvelope_raw(data) ==
    IF Len(data) < 6
    THEN ErrMisc
    ELSE Ok3(from_le_bytes(data[1], data[2]),
             from_le_bytes(data[3], data[4]),
             from_le_bytes(data[5], data[6]))

\* ------------------------------------------------------------------------
\* Transport (transport.rs): packets, tables and the handlers as functions of
\* the TransportHandler record h.

Pkt(pt, dt, dest, ctx, data, hops) ==
    [packet_type |-> pt, destination_type |-> dt, destination |-> dest,
     context |-> ctx, data |-> data, hops |-> hops, transport |-> None]

\* Packet::hash: content-addressed; hops and the transport id are not hashed
packet_hash(p) ==
    [packet_type |-> p.packet_type, destination_type |-> p.destination_type,
     destination |-> p.destination, context |-> p.context, data |-> p.data]

\* PacketCache: hash -> age in seconds
cache_update(cache, p) ==
    LET k == packet_hash(p)
    IN  [cache |-> IF k \in DOMAIN cache THEN cache ELSE cache @@ (k :> 0),
         is_new |-> k \notin DOMAIN cache]

cache_release(cache, max_age) ==
    [k \in {x \in DOMAIN cache : cache[x] <= max_age} |-> cache[k]]

cache_tick(cache) == [k \in DOMAIN cache |-> cache[k] + 1]

\* LinkStatus::not_yet_active
not_yet_active(status) == status = "Pending"

\* DestinationAnnounce::validate: the first data byte stands for the outcome
\* of the signature check
announce_valid(p) == p.data /= <<>> /\ p.data[1] = 1

\* LinkId::from(packet): the link id a LinkRequest determines
link_id_from(p) == p.destination \o "#" \o ToString(p.data[1])

TxBroadcast(except, p) == [tx_type |-> "Broadcast", addr |-> except, packet |-> p]
TxDirect(iface, p) == [tx_type |-> "Direct", addr |-> Some(iface), packet |-> p]

\* TransportHandler::send: record the packet in the cache, hand the message
\* to the interface manager
send(h, message) ==
    [h EXCEPT !.packet_cache = cache_update(@, message.packet).cache,
              !.tx = @ \cup {message}]

send_packet(h, p) == send(h, TxBroadcast(None, p))

has_destination(h, address) == address \in h.single_in_destinations

\* mutant: the result of the cache lookup is dropped, every packet is admitted
filter_duplicate_packets_admit_all(h, packet) ==
    [h |-> [h EXCEPT !.packet_cache = cache_update(@, packet).cache],
     admit |-> TRUE]

\* mutant: the exception is given to every Proof, whatever its context and link
filter_duplicate_packets_any_proof(h, packet) ==
    IF packet.packet_type = "Announce"
    THEN [h |-> h, admit |-> TRUE]
    ELSE LET u == cache_update(h.packet_cache, packet)
         IN  [h |-> [h EXCEPT !.packet_cache = u.cache],
              admit |-> u.is_new \/ packet.packet_type = "Proof"]

filter_duplicate_packets(h, packet) ==
    IF packet.packet_type = "Announce"
    THEN [h |-> h, admit |-> TRUE]
    ELSE LET allow_duplicate ==
                 /\ packet.packet_type = "Proof"
                 /\ packet.context = "LinkRequestProof"
                 /\ packet.destination \in DOMAIN h.in_links
                 /\ not_yet_active(h.in_links[packet.destination].status)
             u == cache_update(h.packet_cache, packet)
         IN  [h |-> [h EXCEPT !.packet_cache = u.cache],
              admit |-> u.is_new \/ allow_duplicate]

\* PathTable::handle_inbound_packet: the packet rewritten for the next hop
\* (hops + 1) and the egress interface, when a route is known
send_to_next_hop(h, packet, lookup) ==
    LET dest == unwrap_or(lookup, packet.destination)
    IN  IF dest \in DOMAIN h.path_table
        THEN send(h, TxDirect(h.path_table[dest].iface,
                              [packet EXCEPT !.hops = @ + 1]))
        ELSE h

\* PathTable::handle_announce: keep the shortest route, the freshest on a tie
path_table_handle_announce(pt, packet, iface) ==
    LET entry == [iface |-> iface, hops |-> packet.hops + 1]
        d == packet.destination
    IN  IF d \in DOMAIN pt /\ pt[d].hops < entry.hops
        THEN pt
        ELSE [x \in DOMAIN pt \cup {d} |-> IF x = d THEN entry ELSE pt[x]]

\* Link::handle_packet of an out-link: a Proof for a Pending link activates it
out_link_activates(link, packet) ==
    /\ packet.packet_type = "Proof"
    /\ packet.destination = link.id
    /\ link.status = "Pending"

rtt_packet(id) == Pkt("Data", "Link", id, "LinkRtt", <<>>, 0)
keep_alive_packet(id, b) == Pkt("Data", "Link", id, "KeepAlive", <<b>>, 0)
proof_packet(id) == Pkt("Proof", "Link", id, "LinkRequestProof", <<>>, 0)
link_request_packet(dest, key) == Pkt("LinkRequest", "Single", dest, "None", <<key>>, 0)

RECURSIVE send_all(_, _)
send_all(h, packets) ==
    IF packets = {} THEN h
    ELSE LET p == CHOOSE x \in packets : TRUE
         IN  send_all(send_packet(h, p), packets \ {p})

handle_proof(h, packet) ==
    LET activated == {d \in DOMAIN h.out_links : out_link_activates(h.out_links[d], packet)}
        h1 == [h EXCEPT !.out_links =
                  [d \in DOMAIN @ |-> IF d \in activated
                                      THEN [@[d] EXCEPT !.status = "Active"]
                                      ELSE @[d]]]
        h2 == send_all(h1, {rtt_packet(h.out_links[d].id) : d \in activated})
    IN  IF packet.destination \in DOMAIN h2.link_table
        THEN send(h2, TxDirect(h2.link_table[packet.destination].received_from,
                               [packet EXCEPT !.hops = @ + 1]))
        ELSE h2

\* mutant: the in-link answers a keep-alive response as it answers a request
handle_data_answer_all(h, packet) ==
    LET is_link == packet.destination_type = "Link"
        in_link_keepalive ==
            /\ is_link
            /\ packet.destination \in DOMAIN h.in_links
            /\ h.in_links[packet.destination].status /= "Closed"
            /\ packet.context = "KeepAlive"
            /\ packet.data \in {<<255>>, <<254>>}
        h1 == IF in_link_keepalive
              THEN send_packet(h, keep_alive_packet(packet.destination, 254))
              ELSE h
        keepalive_response ==
            is_link /\ packet.context = "KeepAlive" /\ packet.data = <<254>>
        h2 == IF is_link /\ ~keepalive_response
                    /\ packet.destination \in DOMAIN h1.link_table
              THEN send_to_next_hop(h1, packet,
                       Some(h1.link_table[packet.destination].original_destination))
              ELSE IF is_link /\ keepalive_response
                        /\ packet.destination \in DOMAIN h1.link_table
                   THEN send(h1, TxDirect(h1.link_table[packet.destination].received_from,
                                          [packet EXCEPT !.hops = @ + 1]))
                   ELSE h1
    IN  IF packet.destination_type = "Single"
        THEN IF packet.destination \in h2.single_in_destinations
             THEN [h2 EXCEPT !.received_data_tx =
                       Append(@, [destination |-> packet.destination,
                                  data |-> packet.data])]
             ELSE send_to_next_hop(h2, packet, None)
        ELSE h2

handle_data(h, packet) ==
    LET is_link == packet.destination_type = "Link"
        in_link_keepalive ==
            /\ is_link
            /\ packet.destination \in DOMAIN h.in_links
            /\ h.in_links[packet.destination].status /= "Closed"
            /\ packet.context = "KeepAlive"
            /\ packet.data = <<255>>
        h1 == IF in_link_keepalive
              THEN send_packet(h, keep_alive_packet(packet.destination, 254))
              ELSE h
        keepalive_response ==
            is_link /\ packet.context = "KeepAlive" /\ packet.data = <<254>>
        h2 == IF is_link /\ ~keepalive_response
                    /\ packet.destination \in DOMAIN h1.link_table
              THEN send_to_next_hop(h1, packet,
                       Some(h1.link_table[packet.destination].original_destination))
              ELSE IF is_link /\ keepalive_response
                        /\ packet.destination \in DOMAIN h1.link_table
                   THEN send(h1, TxDirect(h1.link_table[packet.destination].received_from,
                                          [packet EXCEPT !.hops = @ + 1]))
                   ELSE h1
    IN  IF packet.destination_type = "Single"
        THEN IF packet.destination \in h2.single_in_destinations
             THEN [h2 EXCEPT !.received_data_tx =
                       Append(@, [destination |-> packet.destination,
                                  data |-> packet.data])]
             ELSE send_to_next_hop(h2, packet, None)
        ELSE h2

\* Arc::new(Mutex::new(destination)) of handle_announce: the validated
\* destination of the packet in a fresh allocation, which arc identifies (the
\* handler allocates one per announce event)
announced_destination(h, packet) ==
    [address_hash |-> packet.destination, arc |-> Len(h.announce_tx)]

\* mutant: the destination is inserted whether or not the map has the key
handle_announce_always_insert(h, packet, iface) ==
    IF has_destination(h, packet.destination) THEN h
    ELSE IF ~announce_valid(packet) THEN h
    ELSE LET destination == announced_destination(h, packet)
             h1 == [h EXCEPT
                      !.single_out_destinations =
                          IF TRUE
                          THEN [x \in DOMAIN @ \cup {packet.destination} |->
                                   IF x = packet.destination THEN destination ELSE @[x]]
                          ELSE @,
                      !.announce_table = @ \cup {[destination |-> packet.destination,
                                                  iface |-> iface,
                                                  hops |-> packet.hops]},
                      !.path_table = path_table_handle_announce(@, packet, iface)]
             h2 == IF h1.config.retransmit
                   THEN send(h1, TxBroadcast(Some(iface),
                                  [packet EXCEPT !.hops = @ + 1,
                                                 !.transport = Some("T")]))
                   ELSE h1
         IN  [h2 EXCEPT !.announce_tx = Append(@, [destination |-> destination])]

handle_announce(h, packet, iface) ==
    IF has_destination(h, packet.destination) THEN h
    ELSE IF ~announce_valid(packet) THEN h
    ELSE LET destination == announced_destination(h, packet)
             h1 == [h EXCEPT
                      !.single_out_destinations =
                          IF packet.destination \notin DOMAIN @
                          THEN [x \in DOMAIN @ \cup {packet.destination} |->
                                   IF x = packet.destination THEN destination ELSE @[x]]
                          ELSE @,
                      !.announce_table = @ \cup {[destination |-> packet.destination,
                                                  iface |-> iface,
                                                  hops |-> packet.hops]},
                      !.path_table = path_table_handle_announce(@, packet, iface)]
             h2 == IF h1.config.retransmit
                   THEN send(h1, TxBroadcast(Some(iface),
                                  [packet EXCEPT !.hops = @ + 1,
                                                 !.transport = Some("T")]))
                   ELSE h1
         IN  [h2 EXCEPT !.announce_tx = Append(@, [destination |-> destination])]

\* mutant: the destination proves and stores a link for every request,
\* whether or not in_links has its id
handle_link_request_every(h, packet, iface, st) ==
    IF packet.destination \in h.single_in_destinations
    THEN LET link_id == link_id_from(packet)
             h1 == send_packet(h, proof_packet(link_id))
         IN  [h1 EXCEPT
                !.in_links = [x \in DOMAIN @ \cup {link_id} |->
                                 IF x = link_id
                                 THEN [id |-> link_id, status |-> st,
                                       destination |-> packet.destination,
                                       elapsed |-> 0]
                                 ELSE @[x]],
                !.link_in_event_tx =
                     IF st = "Active"
                     THEN Append(@, [id |-> link_id, event |-> "Activated"])
                     ELSE @]
    ELSE IF packet.destination \in DOMAIN h.path_table
    THEN send_to_next_hop(
            [h EXCEPT !.link_table = @ @@ (link_id_from(packet) :>
                 [original_destination |-> packet.destination,
                  received_from |-> iface,
                  next_iface |-> h.path_table[packet.destination].iface])],
            packet, None)
    ELSE h

\* handle_link_request: as the destination (a new in-link, its proof sent),
\* as an intermediate hop (link table entry, forward), or dropped.  st is the
\* status Link::prove leaves the new in-link in.
handle_link_request(h, packet, iface, st) ==
    IF packet.destination \in h.single_in_destinations
    THEN LET link_id == link_id_from(packet)
         IN  IF link_id \in DOMAIN h.in_links THEN h
             ELSE LET h1 == send_packet(h, proof_packet(link_id))
                  IN  [h1 EXCEPT
                         !.in_links = @ @@ (link_id :>
                              [id |-> link_id, status |-> st,
                               destination |-> packet.destination,
                               elapsed |-> 0]),
                         !.link_in_event_tx =
                              IF st = "Active"
                              THEN Append(@, [id |-> link_id, event |-> "Activated"])
                              ELSE @]
    ELSE IF packet.destination \in DOMAIN h.path_table
    THEN send_to_next_hop(
            [h EXCEPT !.link_table = @ @@ (link_id_from(packet) :>
                 [original_destination |-> packet.destination,
                  received_from |-> iface,
                  next_iface |-> h.path_table[packet.destination].iface])],
            packet, None)
    ELSE h

\* Link::new and Link::request: a Pending out-link; its id is the one its
\* request packet determines, key stands for the ephemeral public key
Link_new(destination, key) ==
    [id |-> link_id_from(link_request_packet(destination, key)),
     destination |-> destination, status |-> "Pending", key |-> key,
     elapsed |-> 0]

\* Transport::link: the stored link of the destination unless it is Closed,
\* else a new link, requested and stored
link(h, destination, key) ==
    LET existing == IF destination \in DOMAIN h.out_links
                    THEN Some(h.out_links[destination]) ELSE None
    IN  IF is_some(existing) /\ existing[1].status /= "Closed"
        THEN [h |-> h, link |-> existing[1]]
        ELSE LET l == Link_new(destination, key)
                 h1 == send_packet(h, link_request_packet(destination, key))
             IN  [h |-> [h1 EXCEPT !.out_links =
                           [x \in DOMAIN @ \cup {destination} |->
                               IF x = destination THEN l ELSE @[x]]],
                  link |-> l]

find_out_link(h, link_id) ==
    IF link_id \in DOMAIN h.out_links THEN Some(h.out_links[link_id]) ELSE None

find_in_link(h, link_id) ==
    IF link_id \in DOMAIN h.in_links THEN Some(h.in_links[link_id]) ELSE None

INTERVAL_INPUT_LINK_CLEANUP == 20
INTERVAL_OUTPUT_LINK_RESTART == 60
INTERVAL_OUTPUT_LINK_REPEAT == 6

\* Link::restart: the timers of the link start again
Link_restart(l) == [l EXCEPT !.elapsed = 0]

\* the requests handle_check_links sends again: Pending out-links past the
\* repeat interval
repeated_requests(h) ==
    {link_request_packet(h.out_links[k].destination, h.out_links[k].key) :
        k \in {x \in DOMAIN h.out_links :
                  /\ h.out_links[x].status = "Pending"
                  /\ h.out_links[x].elapsed > INTERVAL_OUTPUT_LINK_REPEAT}}

\* mutant: the request of every Pending out-link is sent again, whatever
\* its age
handle_check_links_repeat_all(h) ==
    LET h1 == [h EXCEPT
                 !.in_links = [k \in {x \in DOMAIN @ :
                                   @[x].elapsed <= INTERVAL_INPUT_LINK_CLEANUP} |-> @[k]],
                 !.out_links = [k \in {x \in DOMAIN @ : @[x].status /= "Closed"} |-> @[k]]]
        h2 == [h1 EXCEPT !.out_links =
                 [k \in DOMAIN @ |->
                     IF @[k].status = "Active"
                           /\ @[k].elapsed > INTERVAL_OUTPUT_LINK_RESTART
                     THEN Link_restart(@[k]) ELSE @[k]]]
    IN  send_all(h2, {link_request_packet(h2.out_links[k].destination, h2.out_links[k].key) :
                         k \in {x \in DOMAIN h2.out_links :
                                   h2.out_links[x].status = "Pending"}})

\* handle_check_links: in-links past the cleanup interval are closed and
\* removed, Closed out-links removed, Active out-links past the restart
\* interval restarted, the request of Pending out-links past the repeat
\* interval sent again
handle_check_links(h) ==
    LET h1 == [h EXCEPT
                 !.in_links = [k \in {x \in DOMAIN @ :
                                   @[x].elapsed <= INTERVAL_INPUT_LINK_CLEANUP} |-> @[k]],
                 !.out_links = [k \in {x \in DOMAIN @ : @[x].status /= "Closed"} |-> @[k]]]
        h2 == [h1 EXCEPT !.out_links =
                 [k \in DOMAIN @ |->
                     IF @[k].status = "Active"
                           /\ @[k].elapsed > INTERVAL_OUTPUT_LINK_RESTART
                     THEN Link_restart(@[k]) ELSE @[k]]]
    IN  send_all(h2, repeated_requests(h2))

\* handle_keep_links: a keep-alive request on every Active out-link
handle_keep_links(h) ==
    send_all(h, {keep_alive_packet(h.out_links[d].id, 255) :
                    d \in {x \in DOMAIN h.out_links : h.out_links[x].status = "Active"}})

\* retransmit_announces: the announces of the table, one hop on, to every
\* interface but the one each came from
retransmit_announces(h) ==
    LET messages == {TxBroadcast(Some(e.iface),
                         Pkt("Announce", "Single", e.destination, "None", <<1>>, e.hops + 1)) :
                       e \in h.announce_table}
        hashes == {packet_hash(m.packet) : m \in messages}
    IN  [h EXCEPT !.tx = @ \cup messages,
                  !.packet_cache = [k \in DOMAIN @ \cup hashes |->
                                       IF k \in DOMAIN @ THEN @[k] ELSE 0]]

\* LinkTable::remove_stale: the entries not touched within the keep window go
link_table_remove_stale(lt, stale) == [k \in DOMAIN lt \ stale |-> lt[k]]

\* mutant: the loop head goes on to the select whatever the token says
at_head_unchecked(cancelled) == "select"

\* `if cancel.is_cancelled() { break; }` at the head of each loop
at_head(cancelled) == IF cancelled THEN "exited" ELSE "select"

\* the timer branch of each maintenance loop
timer_body(t, h, stale) ==
    CASE t = "links_check" -> handle_check_links(h)
      [] t = "cache_release" -> [h EXCEPT !.packet_cache = cache_release(@, 4)]
      [] t = "keep_links" -> handle_keep_links(h)
      [] t = "iface_cleanup" -> h
      [] t = "cache_cleanup" ->
             [h EXCEPT !.packet_cache = cache_release(@, 180),
                       !.link_table = link_table_remove_stale(@, stale)]
      [] t = "announces" -> retransmit_announces(h)

\* mutant: the relay broadcasts to every interface, the source included
dispatch_relay_to_all(h, packet, address, st) ==
    LET h1 == IF h.config.broadcast /\ packet.packet_type /= "Announce"
              THEN send(h, TxBroadcast(None, packet))
              ELSE h
    IN  CASE packet.packet_type = "Announce" -> handle_announce(h1, packet, address)
          [] packet.packet_type = "LinkRequest" -> handle_link_request(h1, packet, address, st)
          [] packet.packet_type = "Proof" -> handle_proof(h1, packet)
          [] packet.packet_type = "Data" -> handle_data(h1, packet)

\* handle_keepalive_response reads packet.data.as_slice()[0] of every packet
\* with context KeepAlive: the index is out of bounds for an empty payload
handle_keepalive_response_panics(packet) ==
    packet.context = "KeepAlive" /\ Len(packet.data) = 0

\* handle_data reaches handle_keepalive_response for every Link destination
dispatch_panics(packet) ==
    /\ packet.packet_type = "Data"
    /\ packet.destination_type = "Link"
    /\ handle_keepalive_response_panics(packet)

\* the handler as the panic leaves it: the broadcast relay is done, the
\* links have seen the packet, nothing is forwarded
dispatch_until_panic(h, packet, address) ==
    IF h.config.broadcast
    THEN send(h, TxBroadcast(Some(address), packet))
    ELSE h

\* the packet task's work on one admitted packet: broadcast relay, then the
\* handler of the packet's type
dispatch(h, packet, address, st) ==
    LET h1 == IF h.config.broadcast /\ packet.packet_type /= "Announce"
              THEN send(h, TxBroadcast(Some(address), packet))
              ELSE h
    IN  CASE packet.packet_type = "Announce" -> handle_announce(h1, packet, address)
          [] packet.packet_type = "LinkRequest" -> handle_link_request(h1, packet, address, st)
          [] packet.packet_type = "Proof" -> handle_proof(h1, packet)
          [] packet.packet_type = "Data" -> handle_data(h1, packet)

\* application-level effects between two handler states: announce events,
\* data events, link transitions
app_effects(h, h2) ==
    (Len(h2.announce_tx) - Len(h.announce_tx))
    + (Len(h2.received_data_tx) - Len(h.received_data_tx))
    + Cardinality(DOMAIN h2.in_links \ DOMAIN h.in_links)
    + Cardinality({d \in DOMAIN h.out_links :
                      h.out_links[d].status /= h2.out_links[d].status})

\* Transport::new
NewHandler(broadcast, retransmit) ==
    [config |-> [broadcast |-> broadcast, retransmit |-> retransmit],
     path_table |-> <<>>,
     announce_table |-> {},
     link_table |-> <<>>,
     single_in_destinations |-> {},
     single_out_destinations |-> <<>>,
     out_links |-> <<>>,
     in_links |-> <<>>,
     packet_cache |-> <<>>,
     announce_tx |-> <<>>,
     link_in_event_tx |-> <<>>,
     received_data_tx |-> <<>>,
     tx |-> {}]

\* ------------------------------------------------------------------------
\* Bounds and inputs of SpecEnv
MaxPayloadLen == 3
ByteVals == {0, 17, 67}
MessageTypes == {16, 257, 4096, 65280}
SequenceVals == {None, Some(0), Some(10), Some(2560), Some(65535)}
Payloads == UNION {[1..n -> ByteVals] : n \in 0..MaxPayloadLen}

VARIABLES
    e_data,            \* envelope_raw's data argument
    e_message_type,    \* its message_type argument
    e_sequence,        \* its sequence argument (Option<u16>)
    e_raw,             \* the enveloped bytes
    e_parsed,          \* deenvelope_raw's result on e_raw
    e_pc               \* "init" | "packed" | "parsed"

envVars == <<e_data, e_message_type, e_sequence, e_raw, e_parsed, e_pc>>

IdleEnv ==
    /\ e_data = <<>>
    /\ e_message_type = 0
    /\ e_sequence = None
    /\ e_raw = <<>>
    /\ e_parsed = ErrMisc
    /\ e_pc = "idle"

\* ------------------------------------------------------------------------
\* Channel (src/src/channel.rs)

WINDOW == 2
WINDOW_MIN == 2
WINDOW_MIN_LIMIT_MEDIUM == 5
WINDOW_MIN_LIMIT_FAST == 16
WINDOW_MAX_SLOW == 5
WINDOW_MAX_MEDIUM == 12
WINDOW_MAX_FAST == 48
WINDOW_MAX == WINDOW_MAX_FAST
FAST_RATE_THRESHOLD == 10
\* round-trip times in milliseconds (the code's f32 seconds times 1000)
RTT_FAST == 180
RTT_MEDIUM == 750
RTT_SLOW == 1450
WINDOW_FLEXIBILITY == 4
\* the link's maximum data unit (packet.rs); it is only compared with
\* raw.len(), so a short value stands for it and keeps the payloads short
PACKET_MDU == 12

ChannelParams_new(slow) ==
    [max_tries |-> 5,
     fast_rate_rounds |-> 0,
     medium_rate_rounds |-> 0,
     window |-> IF slow THEN 1 ELSE WINDOW,
     window_max |-> IF slow THEN 1 ELSE WINDOW_MAX_SLOW,
     window_min |-> IF slow THEN 1 ELSE WINDOW_MIN,
     window_flexibility |-> IF slow THEN 1 ELSE WINDOW_FLEXIBILITY]

\* a Message: message_type() and pack()
Message(message_type, data) == [message_type |-> message_type, data |-> data]

\* MessageFactory::create: the registered factory builds an empty message
\* of the type (Envelope::unpack never hands it the payload)
message_factory_create(factory, message_type) ==
    IF message_type \in factory
    THEN [ok |-> TRUE, message |-> Message(Some(message_type), <<>>)]
    ELSE [ok |-> FALSE, message |-> Message(None, <<>>)]

\* Envelope::new
Envelope_new(message, raw, sequence) ==
    [message |-> message, raw |-> raw, packet |-> None, sequence |-> sequence,
     tries |-> 0, unpacked |-> FALSE, packed |-> FALSE, tracked |-> FALSE]

\* Envelope::pack / get_raw: "Ok" with raw set, or the error
pack(env) ==
    IF ~is_some(env.message) THEN [err |-> "Misc", env |-> env]
    ELSE IF ~is_some(env.message[1].message_type)
    THEN [err |-> "NoMessageType", env |-> env]
    ELSE [err |-> "Ok",
          env |-> [env EXCEPT
                     !.raw = Some(envelope_raw(env.message[1].data,
                                               env.message[1].message_type[1],
                                               env.sequence)),
                     !.packed = TRUE]]

get_raw(env) == IF env.packed THEN [err |-> "Ok", env |-> env] ELSE pack(env)

\* Envelope::unpack.  `raw.len() as u16 != size + 6` only logs, but size + 6
\* is a u16 sum: with overflow checks it panics for size > SEQ_MAX - 6
unpack(env, factory, overflow_checks) ==
    LET d == deenvelope_raw(env.raw[1])
        m == message_factory_create(factory, d.message_type)
    IN  IF d.tag /= "Ok" THEN [ok |-> FALSE, panic |-> FALSE, env |-> env]
        ELSE IF overflow_checks /\ d.size + 6 > SEQ_MAX
        THEN [ok |-> FALSE, panic |-> TRUE, env |-> env]
        ELSE IF ~m.ok THEN [ok |-> FALSE, panic |-> FALSE, env |-> env]
        ELSE [ok |-> TRUE, panic |-> FALSE,
              env |-> [env EXCEPT !.message = Some(m.message),
                                  !.sequence = Some(d.sequence),
                                  !.unpacked = TRUE]]

\* Option<u16> order: None sorts before every Some
opt_lt(a, b) ==
    IF ~is_some(b) THEN FALSE
    ELSE IF ~is_some(a) THEN TRUE
    ELSE a[1] < b[1]

saturating_add(a, b) == IF a + b > SEQ_MAX THEN SEQ_MAX ELSE a + b

\* a * b for two u16 values as a u32 in two 16-bit halves
mul16(a, b) ==
    LET t1 == a * (b \div 256)
        t2 == a * (b % 256)
        m == (t1 % 256) * 256 + t2
    IN  [hi |-> (t1 \div 256) + (m \div U16), lo |-> m % U16]

\* `!2*(self.next_rx_sequence - env_sequence.unwrap_or(0)) as u32 > SEQ_MAX`:
\* (!2u32) * ((a - b) as u32) > SEQ_MAX.  With overflow checks (debug build)
\* the u16 subtraction and the u32 product panic when they overflow,
\* without them (release build) both wrap.  !2u32 is 0xFFFFFFFD, the halves
\* SEQ_MAX and SEQ_MAX - 2; the u32 result exceeds SEQ_MAX exactly when its
\* upper half is not zero.
insert_test(next_rx, env_sequence, overflow_checks) ==
    LET b == unwrap_or(env_sequence, 0)
        x == (next_rx - b) % U16
        lo == mul16(SEQ_MAX - 2, x)
        hi == mul16(SEQ_MAX, x)
        top == lo.hi + hi.lo
        overflows == hi.hi > 0 \/ top >= U16
    IN  IF overflow_checks /\ (b > next_rx \/ overflows)
        THEN [panic |-> TRUE, insert |-> FALSE]
        ELSE [panic |-> FALSE, insert |-> (top % U16) > 0]

InsertAt(ring, i, e) == SubSeq(ring, 1, i - 1) \o <<e>> \o SubSeq(ring, i, Len(ring))
RemoveAt(ring, i) == SubSeq(ring, 1, i - 1) \o SubSeq(ring, i + 1, Len(ring))

RECURSIVE emplace_from(_, _, _, _, _)
emplace_from(ring, envelope, i, next_rx, overflow_checks) ==
    IF i > Len(ring)
    THEN [ring |-> Append(ring, [envelope EXCEPT !.tracked = TRUE]),
          is_new |-> TRUE, panic |-> FALSE]
    ELSE IF envelope.sequence = ring[i].sequence
    THEN [ring |-> ring, is_new |-> FALSE, panic |-> FALSE]
    ELSE IF opt_lt(envelope.sequence, ring[i].sequence)
    THEN LET t == insert_test(next_rx, envelope.sequence, overflow_checks)
         IN  IF t.panic THEN [ring |-> ring, is_new |-> FALSE, panic |-> TRUE]
             ELSE IF t.insert
             THEN [ring |-> InsertAt(ring, i, [envelope EXCEPT !.tracked = TRUE]),
                   is_new |-> TRUE, panic |-> FALSE]
             ELSE emplace_from(ring, envelope, i + 1, next_rx, overflow_checks)
    ELSE emplace_from(ring, envelope, i + 1, next_rx, overflow_checks)

\* mutant: the envelope goes to the back of the ring, whatever the ring holds
emplace_envelope_push_back(ring, envelope, next_rx, overflow_checks) ==
    [ring |-> Append(ring, [envelope EXCEPT !.tracked = TRUE]),
     is_new |-> TRUE, panic |-> FALSE]

\* Channel::emplace_envelope on the ring chosen by rx
emplace_envelope(ring, envelope, next_rx, overflow_checks) ==
    emplace_from(ring, envelope, 1, next_rx, overflow_checks)

\* Channel::receive_traverse_ring: one pass over the rx ring
RECURSIVE traverse_from(_, _, _, _, _)
traverse_from(rest, retained, contiguous, next_rx, overflow_checks) ==
    IF rest = <<>>
    THEN [rx_ring |-> retained, contiguous |-> contiguous,
          next_rx_sequence |-> next_rx, start_over |-> FALSE, panic |-> FALSE]
    ELSE IF Head(rest).sequence = Some(next_rx)
    THEN IF next_rx = SEQ_MAX
         THEN IF overflow_checks
              THEN [rx_ring |-> Tail(rest), contiguous |-> contiguous,
                    next_rx_sequence |-> next_rx, start_over |-> FALSE, panic |-> TRUE]
              ELSE [rx_ring |-> retained \o Tail(rest),
                    contiguous |-> Append(contiguous, Head(rest)),
                    next_rx_sequence |-> 0, start_over |-> TRUE, panic |-> FALSE]
         ELSE traverse_from(Tail(rest), retained, Append(contiguous, Head(rest)),
                            next_rx + 1, overflow_checks)
    ELSE traverse_from(Tail(rest), Append(retained, Head(rest)), contiguous,
                       next_rx, overflow_checks)

receive_traverse_ring(rx_ring, contiguous, next_rx, overflow_checks) ==
    traverse_from(rx_ring, <<>>, contiguous, next_rx, overflow_checks)

\* what the handlers are given for one delivered envelope: its sequence and
\* the identity of the message (read from the payload, see payload_of)
msg_id(raw) == from_le_bytes(raw[7], raw[8]) + U16 * raw[9]
Observed(env) == [sequence |-> env.sequence[1], id |-> msg_id(env.raw[1])]

RECURSIVE observe_all(_)
observe_all(contiguous) ==
    IF contiguous = <<>> THEN <<>>
    ELSE <<Observed(Head(contiguous))>> \o observe_all(Tail(contiguous))

\* Channel::receive; run_callbacks is called for each entry of `delivered`
receive(raw, rx_ring, next_rx, factory, overflow_checks) ==
    LET same == [rx_ring |-> rx_ring, next_rx_sequence |-> next_rx,
                 delivered |-> <<>>, panic |-> FALSE]
        u == unpack(Envelope_new(None, Some(raw), None), factory, overflow_checks)
    IN  IF u.panic THEN [same EXCEPT !.panic = TRUE]
        ELSE IF ~u.ok THEN same
        ELSE
        LET sequence == u.env.sequence[1]
            overflow == saturating_add(sequence, WINDOW_MAX)
        IN  IF sequence < next_rx /\ (overflow >= next_rx \/ sequence > overflow)
            THEN same
            ELSE
            LET em == emplace_envelope(rx_ring, u.env, next_rx, overflow_checks)
            IN  IF em.panic THEN [same EXCEPT !.panic = TRUE]
                ELSE
                LET t1 == receive_traverse_ring(em.ring, <<>>, next_rx, overflow_checks)
                    t2 == IF t1.start_over
                          THEN receive_traverse_ring(t1.rx_ring, t1.contiguous,
                                                     t1.next_rx_sequence, overflow_checks)
                          ELSE t1
                IN  IF t1.panic \/ t2.panic
                    THEN [rx_ring |-> IF t1.panic THEN t1.rx_ring ELSE t2.rx_ring,
                          next_rx_sequence |-> IF t1.panic THEN t1.next_rx_sequence
                                               ELSE t2.next_rx_sequence,
                          delivered |-> <<>>, panic |-> TRUE]
                    ELSE [rx_ring |-> t2.rx_ring,
                          next_rx_sequence |-> t2.next_rx_sequence,
                          delivered |-> observe_all(t2.contiguous),
                          panic |-> FALSE]

\* get_packet_state: packet receipts are not implemented
get_packet_state(packet) == "Sent"

RECURSIVE count_outstanding(_)
count_outstanding(ring) ==
    IF ring = <<>> THEN 0
    ELSE (IF is_some(Head(ring).packet)
             /\ get_packet_state(Head(ring).packet[1]) = "Delivered"
          THEN 0 ELSE 1) + count_outstanding(Tail(ring))

\* Link::is_usable
is_usable(status) == status = "Active"

\* Channel::is_ready_to_send
is_ready_to_send(ring, status, p) ==
    IF ~is_usable(status) THEN FALSE
    ELSE count_outstanding(ring) < p.window

\* the packet built by ChannelOutlet::send
ChannelPacket(raw) == [data |-> raw, context |-> "Channel"]

\* the envelope is shared with the ring: later changes show in the ring
replace_in_ring(ring, sequence, env) ==
    [i \in 1..Len(ring) |-> IF ring[i].sequence = sequence THEN env ELSE ring[i]]

\* Channel::send
Channel_send(message, ring, next_seq, next_rx, status, p, overflow_checks) ==
    LET same == [result |-> "LinkNotReady", tx_ring |-> ring,
                 next_sequence |-> next_seq, sent |-> {}, panic |-> FALSE]
    IN  IF ~is_ready_to_send(ring, status, p) THEN same
        ELSE IF next_seq = SEQ_MAX /\ overflow_checks
        THEN [same EXCEPT !.result = "panic", !.panic = TRUE]
        ELSE
        LET seq1 == (next_seq + 1) % U16
            env0 == Envelope_new(Some(message), None, Some(next_seq))
            em == emplace_envelope(ring, env0, next_rx, overflow_checks)
            env1 == IF em.is_new THEN [env0 EXCEPT !.tracked = TRUE] ELSE env0
            g == get_raw(env1)
            put(e) == IF em.is_new THEN replace_in_ring(em.ring, env0.sequence, e)
                      ELSE em.ring
        IN  IF em.panic
            THEN [same EXCEPT !.result = "panic", !.next_sequence = seq1,
                              !.panic = TRUE]
            ELSE IF g.err /= "Ok"
            THEN [result |-> g.err, tx_ring |-> put(g.env),
                  next_sequence |-> seq1, sent |-> {}, panic |-> FALSE]
            ELSE IF Len(g.env.raw[1]) > PACKET_MDU
            THEN [result |-> "TooBig", tx_ring |-> put(g.env),
                  next_sequence |-> seq1, sent |-> {}, panic |-> FALSE]
            ELSE
            LET packet == ChannelPacket(g.env.raw[1])
                env3 == [g.env EXCEPT !.tries = @ + 1, !.packet = Some(packet)]
            IN  [result |-> "Ok", tx_ring |-> put(env3), next_sequence |-> seq1,
                 sent |-> IF status = "Active" THEN {packet} ELSE {},
                 panic |-> FALSE]

\* adjust_params, rtt in milliseconds
adjust_params(p, rtt) ==
    LET p1 == IF p.window < p.window_max THEN [p EXCEPT !.window = @ + 1] ELSE p
    IN  IF rtt = 0 THEN p1
        ELSE IF rtt > RTT_FAST
        THEN LET p2 == [p1 EXCEPT !.fast_rate_rounds = 0]
             IN  IF rtt > RTT_MEDIUM
                 THEN [p2 EXCEPT !.medium_rate_rounds = 0]
                 ELSE LET p3 == [p2 EXCEPT !.medium_rate_rounds = @ + 1]
                      IN  IF p3.window_max < WINDOW_MAX_MEDIUM
                             /\ p3.medium_rate_rounds = FAST_RATE_THRESHOLD
                          THEN [p3 EXCEPT !.window_max = WINDOW_MAX_MEDIUM,
                                          !.window_min = WINDOW_MIN_LIMIT_MEDIUM]
                          ELSE p3
        ELSE LET p4 == [p1 EXCEPT !.fast_rate_rounds = @ + 1]
             IN  IF p4.window_max < WINDOW_MAX_FAST
                    /\ p4.fast_rate_rounds = FAST_RATE_THRESHOLD
                 THEN [p4 EXCEPT !.window_max = WINDOW_MAX_FAST,
                                 !.window_min = WINDOW_MIN_LIMIT_FAST]
                 ELSE p4

\* find_tx_envelope: index of the first envelope that carries the packet, 0 if none
RECURSIVE find_tx_from(_, _, _)
find_tx_from(ring, packet, i) ==
    IF i > Len(ring) THEN 0
    ELSE IF ring[i].packet = Some(packet) THEN i
    ELSE find_tx_from(ring, packet, i + 1)

find_tx_envelope(ring, packet) == find_tx_from(ring, packet, 1)

\* mutant: the envelope at the front of the ring is removed
pop_tx_front(ring, i) == IF i = 0 THEN ring ELSE Tail(ring)

\* pop_tx_from_ring for the envelope at index i
pop_tx_from_ring(ring, i) == IF i = 0 THEN ring ELSE RemoveAt(ring, i)

\* PacketDeliveredCallback::run
PacketDeliveredCallback_run(ring, p, packet, rtt) ==
    LET i == find_tx_envelope(ring, packet)
    IN  IF i = 0 THEN [tx_ring |-> ring, params |-> p]
        ELSE [tx_ring |-> pop_tx_from_ring(ring, i), params |-> adjust_params(p, rtt)]

\* PacketTimeoutCallback::run with run_callback: resent is TRUE when the
\* outlet is asked to resend the packet, timed_out when outlet.timed_out()
\* is called
PacketTimeoutCallback_run(ring, p, packet, rtt) ==
    LET i == find_tx_envelope(ring, packet)
    IN  IF i = 0
        THEN [tx_ring |-> ring, params |-> p, resent |-> FALSE, timed_out |-> FALSE]
        ELSE IF ring[i].tries > p.max_tries
        THEN [tx_ring |-> pop_tx_from_ring(ring, i),
              params |-> adjust_params(p, rtt),
              resent |-> FALSE, timed_out |-> TRUE]
        ELSE LET p1 == IF p.window > p.window_min
                       THEN LET q == [p EXCEPT !.window = @ - 1]
                            IN  IF q.window_max > q.window_min + q.window_flexibility
                                THEN [q EXCEPT !.window_max = @ - 1]
                                ELSE q
                       ELSE p
             IN  [tx_ring |-> [ring EXCEPT ![i].tries = @ + 1],
                  params |-> p1, resent |-> TRUE, timed_out |-> FALSE]

\* Channel::add_message_handler: the new handler's id is its index
add_message_handler(callbacks, callback) == Append(callbacks, Some(callback))

\* Channel::remove_message_handler
remove_message_handler(callbacks, id) ==
    IF id \in DOMAIN callbacks /\ is_some(callbacks[id])
    THEN [callbacks EXCEPT ![id] = None]
    ELSE callbacks

\* Channel::run_callbacks: the ids of the handlers that are called, in
\* order.  A handler is what it returns: "Done" for Ok(true), "More" for
\* Ok(false), "Err" for an error.
RECURSIVE run_callbacks_from(_, _)
run_callbacks_from(callbacks, i) ==
    IF i > Len(callbacks) THEN <<>>
    ELSE IF ~is_some(callbacks[i]) THEN run_callbacks_from(callbacks, i + 1)
    ELSE IF callbacks[i][1] = "Done" THEN <<i>>
    ELSE <<i>> \o run_callbacks_from(callbacks, i + 1)

run_callbacks(callbacks) == run_callbacks_from(callbacks, 1)

\* ------------------------------------------------------------------------
\* Bounds and inputs of the Channel specifications
MaxSends == 4
MaxTxSends == 4
MaxWinSends == 10
MaxTimeouts == 6
MaxHandlers == 3
HandlerReturns == {"Done", "More", "Err"}
MaxMsgs == 52
Ahead == 3
RegisteredTypes == {257}
RttVals == {0, 100, 500, 5000}
RttTx == {100, 5000}
OldIds == {0}
\* the receiver starts as constructed, or after SEQ_MAX - WINDOW_MAX - 1
\* messages were received in order (empty ring, 49 sequences before the wrap)
RxStarts == {0, SEQ_MAX - WINDOW_MAX - 1}
\* next_rx_sequence of the sending channel, which receives nothing
SenderNextRx == 0

\* the payload of the message with send index id: the index in three bytes,
\* padded with zeros to len bytes
payload_of(id, len) ==
    to_le_bytes(id % U16) \o <<id \div U16>> \o [i \in 1..(len - 3) |-> 0]

\* the messages the application may pass to send() as its id-th message:
\* one that fits, one whose envelope is one byte over the MDU, one without
\* a message type
SendMessages(id) ==
    {Message(Some(t), payload_of(id, 3)) : t \in RegisteredTypes}
        \cup {Message(Some(t), payload_of(id, PACKET_MDU - 5)) : t \in RegisteredTypes}
        \cup {Message(None, payload_of(id, 3))}

\* the envelope of message id as the peer's send() frames it
raw_of(id) ==
    envelope_raw(payload_of(id, 3), CHOOSE t \in RegisteredTypes : TRUE,
                 Some(id % U16))

VARIABLES
    ch_mode,           \* "idle" | "channel" (Spec) | "rx" (SpecRx) | "tx", "win" (SpecTx)
    link_status,       \* status of the sender's Link: "Pending" | "Active" | "Closed"
    next_sequence,     \* Channel.next_sequence of the sender
    tx_ring,           \* Channel.tx_ring of the sender
    params,            \* ChannelParams of the sender
    wire,              \* packets handed to the transport
    next_rx_sequence,  \* Channel.next_rx_sequence of the receiver
    rx_ring,           \* Channel.rx_ring of the receiver
    delivered,         \* messages given to run_callbacks, in order
    overflow_checks,   \* the build: TRUE debug (overflow panics), FALSE release
    panicked,          \* a panic has ended the channel's task
    n_sends,           \* number of send() calls made
    send_result,       \* result of the last send() call
    send_arg,          \* its message
    rx_base,           \* send index of the first message the receiver awaits
    attempts,          \* transmissions so far of the packet transmitted last
    n_timeouts,        \* number of timeout callbacks run
    message_callbacks, \* Channel.message_callbacks of the receiver
    invoked            \* ids of the handlers called for the last delivered message

chVars == <<ch_mode, link_status, next_sequence, tx_ring, params, wire,
            next_rx_sequence, rx_ring, delivered, overflow_checks, panicked,
            n_sends, send_result, send_arg, rx_base, attempts, n_timeouts,
            message_callbacks, invoked>>

cbVars == <<message_callbacks, invoked>>

IdleCh ==
    /\ ch_mode = "idle"
    /\ link_status = "Pending"
    /\ next_sequence = 0
    /\ tx_ring = <<>>
    /\ params = ChannelParams_new(FALSE)
    /\ wire = {}
    /\ next_rx_sequence = 0
    /\ rx_ring = <<>>
    /\ delivered = <<>>
    /\ overflow_checks = FALSE
    /\ panicked = FALSE
    /\ n_sends = 0
    /\ send_result = "None"
    /\ send_arg = Message(None, <<>>)
    /\ rx_base = 0
    /\ attempts = 0
    /\ n_timeouts = 0
    /\ message_callbacks = <<>>
    /\ invoked = <<>>

PATHFINDER_M == 128  \* max hops

\* Bounds and inputs of SpecTp
MaxInputs == 2       \* packets submitted to the transport (SpecTp)
MaxCalls == 4        \* direct handler calls (SpecFilter)
MaxQueue == 2        \* messages waiting in the interface rx stream
MaxAge == 2          \* seconds the model lets a cache entry age
Ifaces == {"I1"}
LocalAddrs == {"A"}
ReleaseAges == {1, 4, 180}
OutDests == {"B", "C"}
\* ages of a link, in seconds, either side of the three check intervals
ElapsedVals == {7, 21, 61}
LinkKeys == {7, 9}
Announces == {Pkt("Announce", "Single", d, "None", <<v>>, 3) : d \in OutDests, v \in {0, 1}}
InLinkStatusAfterProve == {"Pending", "Active"}
InPackets ==
    { Pkt("Data", "Single", "A", "None", <<1>>, 0),
      Pkt("Data", "Single", "A", "None", <<3, 3, 3>>, 0),
      Pkt("Announce", "Single", "B", "None", <<1>>, 3),
      link_request_packet("A", 7),
      proof_packet(link_id_from(link_request_packet("A", 7))) }

VARIABLES
    handler,        \* the TransportHandler
    rx_queue,       \* InterfaceRxReceiver: messages not yet taken by the packet task
    packet_task,    \* "running" | "exited" | "panicked"
    cancel,         \* the cancellation token
    last_filter,    \* the last call of filter_duplicate_packets and its result
    g_burst,        \* per packet hash: application effects since time last passed
    g_dropped,      \* duplicates the packet task has dropped
    g_hist,         \* per packet hash: the filter's verdicts in call order
    n_inputs,       \* packets submitted so far
    last_release    \* max_age of the release that was the last step, else -1

tpVars == <<handler, rx_queue, packet_task, cancel, last_filter,
            g_burst, g_dropped, g_hist, n_inputs, last_release>>

NoFilter == [called |-> FALSE, packet |-> Pkt("Data", "Single", "A", "None", <<>>, 0),
             admit |-> FALSE, cached_before |-> FALSE, exception |-> FALSE]

IdleTp ==
    /\ handler = NewHandler(FALSE, FALSE)
    /\ rx_queue = <<>>
    /\ packet_task = "idle"
    /\ cancel = FALSE
    /\ last_filter = NoFilter
    /\ g_burst = <<>>
    /\ g_dropped = 0
    /\ g_hist = <<>>
    /\ n_inputs = 0
    /\ last_release = -1

\* manage_transport's loops: the packet task and the timer loops
Loops == {"links_check", "cache_release", "keep_links", "iface_cleanup",
          "cache_cleanup", "announces"}
Tasks == {"packet"} \cup Loops

\* ------------------------------------------------------------------------
\* Locks (tokio Mutex guards).  A thread's lock program is the sequence of
\* guard acquisitions and drops of the code it runs, in source order, with
\* the hand-over of a message to the Interface Manager marked.
Acq(l) == [op |-> "acq", lock |-> l]
Rel(l) == [op |-> "rel", lock |-> l]
HandOver == [op |-> "send", lock |-> "iface_manager"]

\* TransportHandler::send
TransportHandler_send_locks ==
    <<Acq("packet_cache"), Rel("packet_cache"),
      Acq("iface_manager"), HandOver, Rel("iface_manager")>>

\* Transport::send_packet: self.handler.lock().await.send_packet(packet).await
Transport_send_packet_locks ==
    <<Acq("handler")>> \o TransportHandler_send_locks \o <<Rel("handler")>>

\* impl ChannelOutlet for Link, send: transport.lock().await.send_packet(..)
Link_send_locks ==
    <<Acq("transport")>> \o Transport_send_packet_locks \o <<Rel("transport")>>

\* Channel::is_ready_to_send with one envelope (env1) in the tx ring
is_ready_to_send_locks ==
    <<Acq("tx_ring"), Acq("outlet"), Rel("outlet"), Acq("env1"), Rel("env1"),
      Acq("params"), Rel("params"), Rel("tx_ring")>>

\* Channel::emplace_envelope of the new envelope (env2) into the tx ring
emplace_envelope_locks ==
    <<Acq("env2"), Rel("env2"), Acq("tx_ring"), Acq("env1"), Rel("env1"),
      Acq("env2"), Rel("env2"), Rel("tx_ring")>>

\* Channel::send on an Active link, the tx ring holding env1
Channel_send_locks ==
    is_ready_to_send_locks \o emplace_envelope_locks
      \o <<Acq("env2"), Acq("outlet")>> \o Link_send_locks
      \o <<Acq("tx_ring"), Rel("tx_ring"), Rel("outlet"), Rel("env2")>>

\* find_tx_envelope for the packet of env1
find_tx_envelope_locks ==
    <<Acq("outlet"), Acq("tx_ring"), Acq("env1"), Rel("env1"),
      Rel("tx_ring"), Rel("outlet")>>

pop_tx_from_ring_locks ==
    <<Acq("tx_ring"), Rel("tx_ring"), Acq("tx_ring"), Rel("tx_ring")>>

\* adjust_params(&mut self.outlet.lock().await, &mut self.params.lock().await)
adjust_params_locks ==
    <<Acq("outlet"), Acq("params"), Rel("params"), Rel("outlet")>>

\* PacketDeliveredCallback::run
PacketDeliveredCallback_locks ==
    find_tx_envelope_locks \o <<Acq("env1"), Rel("env1")>>
      \o pop_tx_from_ring_locks \o adjust_params_locks

\* PacketTimeoutCallback::run_callback
run_callback_locks(exhausted) ==
    <<Acq("params"), Rel("params"),
      Acq("env1"), Acq("params"), Rel("params"), Rel("env1")>>
      \o (IF exhausted
          THEN <<Acq("outlet"), Rel("outlet")>>
          ELSE <<Acq("env1"), Rel("env1"),
                 Acq("outlet"), Acq("env1"), Rel("env1"), Rel("outlet"),
                 Acq("outlet"), Acq("env1"), Rel("env1"), Rel("outlet"),
                 Acq("outlet"), Acq("env1"), Rel("env1"), Rel("outlet"),
                 Acq("params"), Rel("params")>>)

\* PacketTimeoutCallback::run
PacketTimeoutCallback_locks(exhausted) ==
    find_tx_envelope_locks \o run_callback_locks(exhausted)
      \o (IF exhausted
          THEN <<Acq("env1"), Rel("env1")>> \o pop_tx_from_ring_locks
                 \o adjust_params_locks
          ELSE <<>>)

\* one turn of the packet task on a Proof that activates the out-link: the
\* handler guard, the filter, the link guard of handle_proof, the rtt packet
packet_task_locks ==
    <<Acq("rx_receiver"), Acq("handler"),
      Acq("packet_cache"), Rel("packet_cache"), Acq("outlet")>>
      \o TransportHandler_send_locks
      \o <<Rel("outlet"), Rel("handler"), Rel("rx_receiver")>>

\* one tick of the keep-alive loop with the out-link Active
handle_keep_links_locks ==
    <<Acq("handler"), Acq("outlet")>> \o TransportHandler_send_locks
      \o <<Rel("outlet"), Rel("handler")>>

Threads == {"send", "delivered", "timeout", "dispatch", "api", "keep"}

Program(t, exhausted) ==
    CASE t = "send" -> Channel_send_locks
      [] t = "delivered" -> PacketDeliveredCallback_locks
      [] t = "timeout" -> PacketTimeoutCallback_locks(exhausted)
      [] t = "dispatch" -> packet_task_locks
      [] t = "api" -> Transport_send_packet_locks
      [] t = "keep" -> handle_keep_links_locks

\* the locks a thread holds after the first n steps of a program
HeldAfter(prog, n) ==
    {l \in {prog[i].lock : i \in 1..n} :
        Cardinality({i \in 1..n : prog[i] = Acq(l)})
          > Cardinality({i \in 1..n : prog[i] = Rel(l)})}

VARIABLES
    loop_pc,        \* per task: "head" | "select" | "exited"
    observed,       \* per task: it has seen the token cancelled
    lk_pc,          \* per thread: the next step of its lock program
    lk_exhausted,   \* the timeout callback finds tries > max_tries
    lk_scene,       \* the threads that run
    adj_params,     \* ChannelParams that adjust_params works on
    adj_runs,       \* deliveries in a row in the fast and in the medium band
    adj_n,          \* deliveries so far
    adj_ring,       \* tx-ring with the envelope whose packet times out
    adj_out,        \* what the last timeout callback asked of the outlet
    pop_ring,       \* tx-ring of the racing callbacks: envelopes by identity
    pop_pc,         \* per callback: "idle" | "lookup" | "remove" | "adjust"
    pop_target,     \* per callback: the envelope find_tx_envelope returned
    pop_idx,        \* per callback: the index pop_tx_from_ring looked up
    pop_n,          \* envelopes sent so far
    race_out_links, \* out_links of the racing link() calls: destination -> link
    race_status,    \* status of every link created so far, by link id
    race_sent,      \* link ids whose LinkRequest was handed to send_packet
    race_pc,        \* per caller: "idle" | "check" | "create" | "send" | "insert" | "returned"
    race_dest,      \* per caller: the destination passed to link()
    race_link,      \* per caller: the local `link`
    race_calls,     \* link() calls made so far
    pr_transport_id,\* PathRequests.transport_id
    pr_cache,       \* PathRequests.cache: (destination, tag) pairs
    pr_asked,       \* the arguments of the last generate()
    pr_packet,      \* the packet the last generate() returned
    pr_last,        \* the last decode(): its data, its result, the cache before it
    pr_returned,    \* the (destination, tag) pairs decode() returned, in order
    pr_calls        \* calls made so far

lkVars == <<lk_pc, lk_exhausted, lk_scene>>

adjVars == <<adj_params, adj_runs, adj_n, adj_ring, adj_out>>

popVars == <<pop_ring, pop_pc, pop_target, pop_idx, pop_n>>

raceVars == <<race_out_links, race_status, race_sent, race_pc, race_dest,
              race_link, race_calls>>

pathVars == <<pr_transport_id, pr_cache, pr_asked, pr_packet, pr_last,
              pr_returned, pr_calls>>

auxVars == <<adjVars, popVars, raceVars, pathVars>>

mtVars == <<loop_pc, observed, lkVars, auxVars>>

IdleLk ==
    /\ lk_pc = [t \in Threads |-> 1]
    /\ lk_exhausted = FALSE
    /\ lk_scene = {}

IdleAdj ==
    /\ adj_params = ChannelParams_new(FALSE)
    /\ adj_runs = [fast |-> 0, medium |-> 0]
    /\ adj_n = 0
    /\ adj_ring = <<>>
    /\ adj_out = [resent |-> FALSE, timed_out |-> FALSE]

\* the tasks in which the outlet runs delivered and timeout callbacks
Callbacks == {"delivered1", "delivered2", "timeout"}

IdlePop ==
    /\ pop_ring = <<>>
    /\ pop_pc = [t \in Callbacks |-> "idle"]
    /\ pop_target = [t \in Callbacks |-> None]
    /\ pop_idx = [t \in Callbacks |-> None]
    /\ pop_n = 0

\* the tasks calling Transport::link, and the destinations they ask for
Callers == {"caller1", "caller2"}

RaceDests == {"d1", "d2"}

IdleRace ==
    /\ race_out_links = [d \in RaceDests |-> None]
    /\ race_status = <<>>
    /\ race_sent = {}
    /\ race_pc = [c \in Callers |-> "idle"]
    /\ race_dest = [c \in Callers |-> None]
    /\ race_link = [c \in Callers |-> None]
    /\ race_calls = 0

NoDecode == [called |-> FALSE, data |-> <<>>, request |-> None, before |-> {}]

IdlePath ==
    /\ pr_transport_id = None
    /\ pr_cache = {}
    /\ pr_asked = None
    /\ pr_packet = None
    /\ pr_last = NoDecode
    /\ pr_returned = <<>>
    /\ pr_calls = 0

IdleAux == IdleAdj /\ IdlePop /\ IdleRace /\ IdlePath

IdleMt ==
    /\ loop_pc = [t \in Tasks |-> "exited"]
    /\ observed = [t \in Tasks |-> FALSE]
    /\ IdleLk
    /\ IdleAux

InitTp ==
    /\ \E b \in BOOLEAN, r \in BOOLEAN : handler = NewHandler(b, r)
    /\ rx_queue = <<>>
    /\ packet_task = "running"
    /\ cancel = FALSE
    /\ last_filter = NoFilter
    /\ g_burst = <<>>
    /\ g_dropped = 0
    /\ g_hist = <<>>
    /\ n_inputs = 0
    /\ last_release = -1
    /\ IdleEnv
    /\ IdleCh
    /\ IdleMt

\* the record of one filter call, taken from the state before the call
FilterRecord(h, packet, admit) ==
    [called |-> TRUE, packet |-> packet, admit |-> admit,
     cached_before |-> packet_hash(packet) \in DOMAIN h.packet_cache,
     exception |-> /\ packet.packet_type = "Proof"
                   /\ packet.context = "LinkRequestProof"
                   /\ packet.destination \in DOMAIN h.in_links
                   /\ h.in_links[packet.destination].status = "Pending"]

bump(f, k, n) ==
    [x \in DOMAIN f \cup {k} |-> (IF x \in DOMAIN f THEN f[x] ELSE 0) + (IF x = k THEN n ELSE 0)]

push(f, k, v) ==
    [x \in DOMAIN f \cup {k} |->
        IF x = k THEN Append(IF x \in DOMAIN f THEN f[x] ELSE <<>>, v) ELSE f[x]]

\* Transport::add_destination
AddDestination(a) ==
    /\ packet_task \in {"running", "api", "tasks"}
    /\ a \notin handler.single_in_destinations
    /\ handler' = [handler EXCEPT !.single_in_destinations = @ \cup {a}]
    /\ UNCHANGED <<rx_queue, packet_task, cancel, last_filter, g_burst, g_dropped,
                   g_hist, n_inputs>>
    /\ last_release' = -1
    /\ UNCHANGED <<envVars, chVars, mtVars>>

\* an interface driver hands a received packet to the rx stream
Submit(address, packet) ==
    /\ packet_task \in {"running", "exited", "tasks"}
    /\ n_inputs < MaxInputs
    /\ Len(rx_queue) < MaxQueue
    /\ rx_queue' = Append(rx_queue, [address |-> address, packet |-> packet])
    /\ n_inputs' = n_inputs + 1
    /\ UNCHANGED <<handler, packet_task, cancel, last_filter, g_burst, g_dropped, g_hist>>
    /\ last_release' = -1
    /\ UNCHANGED <<envVars, chVars, mtVars>>

\* manage_transport, packet task: one turn of the loop with a message received
PacketTaskStep(st) ==
    /\ packet_task = "running"
    /\ ~cancel
    /\ rx_queue /= <<>>
    /\ LET message == Head(rx_queue)
           packet == message.packet
           f == filter_duplicate_packets(handler, packet)
           panics == f.admit /\ dispatch_panics(packet)
           h2 == IF panics THEN dispatch_until_panic(f.h, packet, message.address)
                 ELSE IF f.admit THEN dispatch(f.h, packet, message.address, st)
                 ELSE f.h
       IN  /\ rx_queue' = Tail(rx_queue)
           /\ handler' = h2
           /\ packet_task' = IF panics THEN "panicked"
                             ELSE IF f.admit THEN "running" ELSE "exited"
           /\ last_filter' = FilterRecord(handler, packet, f.admit)
           /\ g_dropped' = IF f.admit THEN g_dropped ELSE g_dropped + 1
           /\ g_burst' = bump(g_burst, packet_hash(packet), app_effects(f.h, h2))
    /\ UNCHANGED <<cancel, n_inputs, g_hist>>
    /\ last_release' = -1
    /\ UNCHANGED <<envVars, chVars, mtVars>>

\* manage_transport, packet task: the loop sees the token cancelled
PacketTaskCancelled ==
    /\ packet_task = "running"
    /\ cancel
    /\ packet_task' = "exited"
    /\ UNCHANGED <<handler, rx_queue, cancel, last_filter, g_burst, g_dropped,
                   g_hist, n_inputs>>
    /\ last_release' = -1
    /\ UNCHANGED <<envVars, chVars, mtVars>>

\* impl Drop for Transport
DropTransport ==
    /\ packet_task \in {"running", "exited", "tasks"}
    /\ ~cancel
    /\ cancel' = TRUE
    /\ UNCHANGED <<handler, rx_queue, packet_task, last_filter, g_burst, g_dropped,
                   g_hist, n_inputs>>
    /\ last_release' = -1
    /\ UNCHANGED <<envVars, chVars, mtVars>>

\* filter_duplicate_packets called on the handler directly (get_handler)
FilterCall(packet) ==
    /\ packet_task = "direct"
    /\ n_inputs < MaxCalls
    /\ LET f == filter_duplicate_packets(handler, packet)
       IN  /\ handler' = f.h
           /\ last_filter' = FilterRecord(handler, packet, f.admit)
           /\ g_hist' = push(g_hist, packet_hash(packet), f.admit)
    /\ n_inputs' = n_inputs + 1
    /\ UNCHANGED <<rx_queue, packet_task, cancel, g_burst, g_dropped>>
    /\ last_release' = -1
    /\ UNCHANGED <<envVars, chVars, mtVars>>

\* handle_announce called on the handler directly
HandleAnnounceCall(packet, iface) ==
    /\ packet_task \in {"direct", "api"}
    /\ n_inputs < MaxCalls
    /\ packet.packet_type = "Announce"
    /\ handler' = handle_announce(handler, packet, iface)
    /\ n_inputs' = n_inputs + 1
    /\ UNCHANGED <<rx_queue, packet_task, cancel, last_filter, g_burst, g_dropped, g_hist>>
    /\ last_release' = -1
    /\ UNCHANGED <<envVars, chVars, mtVars>>

\* PacketCache::release, from the two sweep loops (4 s, 180 s) or directly
PacketCacheRelease(max_age) ==
    /\ packet_task \in {"running", "exited", "direct"}
    /\ handler' = [handler EXCEPT !.packet_cache = cache_release(@, max_age)]
    /\ g_burst' = <<>>
    /\ UNCHANGED <<rx_queue, packet_task, cancel, last_filter, g_dropped, g_hist, n_inputs>>
    /\ last_release' = max_age
    /\ UNCHANGED <<envVars, chVars, mtVars>>

\* one second passes
Tick ==
    /\ packet_task \in {"running", "exited", "direct"}
    /\ \A k \in DOMAIN handler.packet_cache : handler.packet_cache[k] < MaxAge
    /\ handler' = [handler EXCEPT !.packet_cache = cache_tick(@)]
    /\ g_burst' = <<>>
    /\ UNCHANGED <<rx_queue, packet_task, cancel, last_filter, g_dropped, g_hist, n_inputs>>
    /\ last_release' = -1
    /\ UNCHANGED <<envVars, chVars, mtVars>>

NextTp ==
    \/ \E a \in LocalAddrs : AddDestination(a)
    \/ \E i \in Ifaces, p \in InPackets : Submit(i, p)
    \/ \E st \in InLinkStatusAfterProve : PacketTaskStep(st)
    \/ PacketTaskCancelled
    \/ DropTransport
    \/ \E m \in ReleaseAges : PacketCacheRelease(m)
    \/ Tick

\* Transport::send_packet: the application sends a packet
SendPacket(packet) ==
    /\ packet_task = "running"
    /\ n_inputs < MaxInputs
    /\ handler' = send_packet(handler, packet)
    /\ n_inputs' = n_inputs + 1
    /\ UNCHANGED <<rx_queue, packet_task, cancel, last_filter, g_burst, g_dropped, g_hist>>
    /\ last_release' = -1
    /\ UNCHANGED <<envVars, chVars, mtVars>>

\* SpecEcho: the transport sends, and what it sent comes back from the
\* network
NextEcho ==
    \/ \E p \in InPackets : SendPacket(p)
    \/ \E i \in Ifaces, p \in InPackets : Submit(i, p)
    \/ \E st \in InLinkStatusAfterProve : PacketTaskStep(st)
    \/ \E m \in ReleaseAges : PacketCacheRelease(m)
    \/ Tick

\* SpecKeep: keep-alive packets of a link arrive from the network, with the
\* sentinel byte and without it
KeepLink == link_id_from(link_request_packet("A", 7))

KeepPackets ==
    { Pkt("Data", "Link", KeepLink, "KeepAlive", <<>>, 0),
      keep_alive_packet(KeepLink, 255),
      keep_alive_packet(KeepLink, 254),
      link_request_packet("A", 7),
      Pkt("Data", "Single", "A", "None", <<1>>, 0) }

NextKeep ==
    \/ \E a \in LocalAddrs : AddDestination(a)
    \/ \E i \in Ifaces, p \in KeepPackets : Submit(i, p)
    \/ \E st \in InLinkStatusAfterProve : PacketTaskStep(st)
    \/ \E m \in ReleaseAges : PacketCacheRelease(m)
    \/ Tick

\* the handler driven by direct calls, as tests::drop_duplicates does
InitFilter ==
    /\ handler = NewHandler(FALSE, TRUE)
    /\ rx_queue = <<>>
    /\ packet_task = "direct"
    /\ cancel = FALSE
    /\ last_filter = NoFilter
    /\ g_burst = <<>>
    /\ g_dropped = 0
    /\ g_hist = <<>>
    /\ n_inputs = 0
    /\ last_release = -1
    /\ IdleEnv
    /\ IdleCh
    /\ IdleMt

NextFilter ==
    \/ \E p \in InPackets : FilterCall(p)
    \/ \E p \in Announces, i \in Ifaces : HandleAnnounceCall(p, i)
    \/ \E m \in ReleaseAges : PacketCacheRelease(m)
    \/ Tick

InitEnv ==
    /\ e_data \in Payloads
    /\ e_message_type \in MessageTypes
    /\ e_sequence \in SequenceVals
    /\ e_raw = <<>>
    /\ e_parsed = ErrMisc
    /\ e_pc = "init"
    /\ IdleTp
    /\ IdleCh
    /\ IdleMt

EnvelopeRaw ==
    /\ e_pc = "init"
    /\ e_raw' = envelope_raw(e_data, e_message_type, e_sequence)
    /\ e_pc' = "packed"
    /\ UNCHANGED <<e_data, e_message_type, e_sequence, e_parsed>>
    /\ UNCHANGED <<tpVars, chVars, mtVars>>

DeenvelopeRaw ==
    /\ e_pc = "packed"
    /\ e_parsed' = deenvelope_raw(e_raw)
    /\ e_pc' = "parsed"
    /\ UNCHANGED <<e_data, e_message_type, e_sequence, e_raw>>
    /\ UNCHANGED <<tpVars, chVars, mtVars>>

vars == <<envVars, tpVars, chVars, mtVars>>

NextEnv == EnvelopeRaw \/ DeenvelopeRaw

SpecEnv == InitEnv /\ [][NextEnv]_vars

SpecTp == InitTp /\ [][NextTp]_vars

SpecFilter == InitFilter /\ [][NextFilter]_vars

SpecEcho == InitTp /\ [][NextEcho]_vars

SpecKeep == InitTp /\ [][NextKeep]_vars

\* ------------------------------------------------------------------------
\* SpecLink: the application's link calls on a Transport, with the handlers
\* of link requests and proofs and the 1 s link check.
MaxApiCalls == 4     \* calls and handled packets (SpecLink)
LinkRequests == {link_request_packet(d, k) : d \in LocalAddrs \cup OutDests, k \in LinkKeys}
Proofs == {proof_packet(link_id_from(r)) : r \in LinkRequests}

InitLink ==
    /\ handler = NewHandler(FALSE, FALSE)
    /\ rx_queue = <<>>
    /\ packet_task = "api"
    /\ cancel = FALSE
    /\ last_filter = NoFilter
    /\ g_burst = <<>>
    /\ g_dropped = 0
    /\ g_hist = <<>>
    /\ n_inputs = 0
    /\ last_release = -1
    /\ IdleEnv
    /\ IdleCh
    /\ IdleMt

tpRest == <<rx_queue, packet_task, cancel, last_filter, g_burst, g_dropped,
            g_hist, last_release>>

\* Transport::link
LinkCall(destination, key) ==
    /\ packet_task = "api"
    /\ n_inputs < MaxApiCalls
    /\ handler' = link(handler, destination, key).h
    /\ n_inputs' = n_inputs + 1
    /\ UNCHANGED tpRest
    /\ UNCHANGED <<envVars, chVars, mtVars>>

\* Link::close by the application, on an out-link it holds
CloseOutLink(d) ==
    /\ packet_task = "api"
    /\ d \in DOMAIN handler.out_links
    /\ handler.out_links[d].status /= "Closed"
    /\ handler' = [handler EXCEPT !.out_links[d].status = "Closed"]
    /\ UNCHANGED <<n_inputs, tpRest>>
    /\ UNCHANGED <<envVars, chVars, mtVars>>

\* handle_link_request on a received LinkRequest
HandleLinkRequestCall(packet, iface, st) ==
    /\ packet_task = "api"
    /\ n_inputs < MaxApiCalls
    /\ handler' = handle_link_request(handler, packet, iface, st)
    /\ n_inputs' = n_inputs + 1
    /\ UNCHANGED tpRest
    /\ UNCHANGED <<envVars, chVars, mtVars>>

\* handle_proof on a received Proof
HandleProofCall(packet) ==
    /\ packet_task = "api"
    /\ n_inputs < MaxApiCalls
    /\ handler' = handle_proof(handler, packet)
    /\ n_inputs' = n_inputs + 1
    /\ UNCHANGED tpRest
    /\ UNCHANGED <<envVars, chVars, mtVars>>

\* time passing without activity on the links: Link::elapsed grows to e on
\* every link younger than e
aged(links, e) ==
    [k \in DOMAIN links |-> IF links[k].elapsed < e
                            THEN [links[k] EXCEPT !.elapsed = e] ELSE links[k]]

Elapse(e) ==
    /\ packet_task = "api"
    /\ handler' = [handler EXCEPT !.in_links = aged(@, e), !.out_links = aged(@, e)]
    /\ handler' /= handler
    /\ UNCHANGED <<n_inputs, tpRest>>
    /\ UNCHANGED <<envVars, chVars, mtVars>>

\* the interface manager takes the queued messages off the channel
IfaceTake ==
    /\ packet_task = "api"
    /\ handler.tx /= {}
    /\ handler' = [handler EXCEPT !.tx = {}]
    /\ UNCHANGED <<n_inputs, tpRest>>
    /\ UNCHANGED <<envVars, chVars, mtVars>>

\* the 1 s link check of manage_transport
HandleCheckLinks ==
    /\ packet_task = "api"
    /\ handler' = handle_check_links(handler)
    /\ handler' /= handler
    /\ UNCHANGED <<n_inputs, tpRest>>
    /\ UNCHANGED <<envVars, chVars, mtVars>>

NextLink ==
    \/ \E a \in LocalAddrs : AddDestination(a)
    \/ \E d \in OutDests, k \in LinkKeys : LinkCall(d, k)
    \/ \E d \in OutDests : CloseOutLink(d)
    \/ \E p \in LinkRequests, i \in Ifaces, st \in InLinkStatusAfterProve :
           HandleLinkRequestCall(p, i, st)
    \/ \E p \in Proofs : HandleProofCall(p)
    \/ \E p \in Announces, i \in Ifaces : HandleAnnounceCall(p, i)
    \/ HandleCheckLinks

SpecLink == InitLink /\ [][NextLink]_vars

\* ------------------------------------------------------------------------
\* SpecCheck: links made, proved, closed and ageing, the interface manager
\* draining the channel, and the link check.
InitCheck ==
    /\ handler = NewHandler(FALSE, FALSE)
    /\ rx_queue = <<>>
    /\ packet_task = "api"
    /\ cancel = FALSE
    /\ last_filter = NoFilter
    /\ g_burst = <<>>
    /\ g_dropped = 0
    /\ g_hist = <<>>
    /\ n_inputs = 0
    /\ last_release = -1
    /\ IdleEnv
    /\ IdleCh
    /\ IdleMt

\* the 5 s keep-alive tick of manage_transport
HandleKeepLinks ==
    /\ packet_task = "api"
    /\ handler' = handle_keep_links(handler)
    /\ handler' /= handler
    /\ UNCHANGED <<n_inputs, tpRest>>
    /\ UNCHANGED <<envVars, chVars, mtVars>>

\* handle_data on a received Data packet
HandleDataCall(packet) ==
    /\ packet_task = "api"
    /\ n_inputs < MaxApiCalls
    /\ handler' = handle_data(handler, packet)
    /\ n_inputs' = n_inputs + 1
    /\ UNCHANGED tpRest
    /\ UNCHANGED <<envVars, chVars, mtVars>>

CheckKey == CHOOSE k \in LinkKeys : TRUE
CheckIface == CHOOSE i \in Ifaces : TRUE
CheckRequests == {link_request_packet(d, CheckKey) : d \in LocalAddrs}
CheckProofs == {proof_packet(link_id_from(link_request_packet(d, CheckKey))) : d \in OutDests}
\* keep-alive requests and responses on the links of the requests above
KeepAlives ==
    {keep_alive_packet(link_id_from(link_request_packet(d, CheckKey)), b) :
        d \in LocalAddrs \cup OutDests, b \in {255, 254}}

NextCheck ==
    \/ \E a \in LocalAddrs : AddDestination(a)
    \/ \E d \in OutDests : LinkCall(d, CheckKey)
    \/ \E d \in OutDests : CloseOutLink(d)
    \/ \E p \in CheckRequests, st \in InLinkStatusAfterProve :
           HandleLinkRequestCall(p, CheckIface, st)
    \/ \E p \in CheckProofs : HandleProofCall(p)
    \/ \E p \in KeepAlives : HandleDataCall(p)
    \/ \E e \in ElapsedVals : Elapse(e)
    \/ IfaceTake
    \/ HandleCheckLinks
    \/ HandleKeepLinks

SpecCheck == InitCheck /\ [][NextCheck]_vars

\* ------------------------------------------------------------------------
\* SpecAdj: adjust_params over a run of deliveries, each with the round-trip
\* time the outlet reports at that delivery (milliseconds).
MaxDeliveries == 11
AdjRtts == {0, 100, 500, 1000, 5000}

\* the message whose packet waits in the tx-ring
AdjMessage == Message(Some(CHOOSE t \in RegisteredTypes : TRUE), <<1, 2, 3>>)

\* the band of a round-trip time as the window table names them
band(rtt) ==
    IF rtt = 0 THEN "none"
    ELSE IF rtt <= RTT_FAST THEN "fast"
    ELSE IF rtt <= RTT_SLOW THEN "medium"
    ELSE "slow"

\* deliveries in a row per band; a delivery with no round-trip time yet
\* (outlet_rtt() == 0.0) neither counts nor interrupts
runs_after(runs, rtt) ==
    CASE band(rtt) = "none" -> runs
      [] band(rtt) = "fast" -> [fast |-> runs.fast + 1, medium |-> 0]
      [] band(rtt) = "medium" -> [fast |-> 0, medium |-> runs.medium + 1]
      [] band(rtt) = "slow" -> [fast |-> 0, medium |-> 0]

InitAdj ==
    /\ \E slow \in BOOLEAN : adj_params = ChannelParams_new(slow)
    /\ adj_runs = [fast |-> 0, medium |-> 0]
    /\ adj_n = 0
    /\ adj_ring = Channel_send(AdjMessage, <<>>, 0, 0, "Active",
                               ChannelParams_new(FALSE), FALSE).tx_ring
    /\ adj_out = [resent |-> FALSE, timed_out |-> FALSE]
    /\ IdlePop
    /\ IdleRace
    /\ IdlePath
    /\ loop_pc = [t \in Tasks |-> "exited"]
    /\ observed = [t \in Tasks |-> FALSE]
    /\ IdleLk
    /\ IdleEnv
    /\ IdleTp
    /\ IdleCh

\* the delivered callback of a tracked packet reaches adjust_params
AdjustParams(rtt) ==
    /\ adj_n < MaxDeliveries
    /\ adj_params' = adjust_params(adj_params, rtt)
    /\ adj_runs' = runs_after(adj_runs, rtt)
    /\ adj_n' = adj_n + 1
    /\ UNCHANGED <<adj_ring, adj_out>>
    /\ UNCHANGED <<loop_pc, observed, lkVars, popVars, raceVars, pathVars>>
    /\ UNCHANGED <<envVars, tpVars, chVars>>

\* the outlet runs the timeout callback of the packet in the ring
AdjTimeout(rtt) ==
    /\ adj_ring /= <<>>
    /\ LET r == PacketTimeoutCallback_run(adj_ring, adj_params,
                                          adj_ring[1].packet[1], rtt)
       IN  /\ adj_ring' = r.tx_ring
           /\ adj_params' = r.params
           /\ adj_out' = [resent |-> r.resent, timed_out |-> r.timed_out]
    /\ UNCHANGED <<adj_runs, adj_n>>
    /\ UNCHANGED <<loop_pc, observed, lkVars, popVars, raceVars, pathVars>>
    /\ UNCHANGED <<envVars, tpVars, chVars>>

NextAdj ==
    \/ \E rtt \in AdjRtts : AdjustParams(rtt)
    \/ \E rtt \in AdjRtts : AdjTimeout(rtt)

SpecAdj == InitAdj /\ [][NextAdj]_vars

\* ------------------------------------------------------------------------
\* SpecPop: delivered and timeout callbacks of one channel running in
\* separate tasks while the application sends.  Every lock().await is one
\* step: what a callback does under one guard is atomic, what it does under
\* two guards is not.
MaxPopSends == 4

\* find_tx_envelope under the tx_ring guard: the envelope that carries the
\* packet; the packet of envelope e is e
find_in_ring(ring, packet) ==
    IF \E i \in DOMAIN ring : ring[i] = packet THEN Some(packet) ELSE None

\* the loop of pop_tx_from_ring under its first guard: the last index whose
\* entry is pointer-equal to the envelope
pop_lookup(ring, envelope) ==
    LET found == {j \in DOMAIN ring : ring[j] = envelope}
    IN  IF found = {} THEN None
        ELSE Some(CHOOSE j \in found : \A k \in found : k <= j)

\* VecDeque::remove(i) under the second guard; an index past the end
\* removes nothing
pop_remove(ring, i) ==
    IF i \in DOMAIN ring
    THEN [j \in 1..(Len(ring) - 1) |-> IF j < i THEN ring[j] ELSE ring[j + 1]]
    ELSE ring

InitPop ==
    /\ pop_ring = <<>>
    /\ pop_pc = [t \in Callbacks |-> "idle"]
    /\ pop_target = [t \in Callbacks |-> None]
    /\ pop_idx = [t \in Callbacks |-> None]
    /\ pop_n = 0
    /\ IdleAdj
    /\ IdleRace
    /\ IdlePath
    /\ loop_pc = [t \in Tasks |-> "exited"]
    /\ observed = [t \in Tasks |-> FALSE]
    /\ IdleLk
    /\ IdleEnv
    /\ IdleTp
    /\ IdleCh

popRest == <<loop_pc, observed, lkVars, adjVars, raceVars, pathVars>>

\* Channel::send: emplace_envelope puts the new envelope at the back
PopSend ==
    /\ pop_n < MaxPopSends
    /\ pop_ring' = Append(pop_ring, pop_n + 1)
    /\ pop_n' = pop_n + 1
    /\ UNCHANGED <<pop_pc, pop_target, pop_idx>>
    /\ UNCHANGED popRest
    /\ UNCHANGED <<envVars, tpVars, chVars>>

\* the outlet runs callback t for the packet of envelope e, once per
\* packet for a delivery; run() starts with find_tx_envelope
Signal(t, e) ==
    /\ pop_pc[t] = "idle"
    /\ e \in 1..pop_n
    /\ \A u \in Callbacks : pop_target[u] /= Some(e)
    /\ pop_target' = [pop_target EXCEPT ![t] = find_in_ring(pop_ring, e)]
    /\ pop_pc' = [pop_pc EXCEPT ![t] = IF is_some(find_in_ring(pop_ring, e))
                                        THEN "lookup" ELSE "idle"]
    /\ UNCHANGED <<pop_ring, pop_idx, pop_n>>
    /\ UNCHANGED popRest
    /\ UNCHANGED <<envVars, tpVars, chVars>>

\* pop_tx_from_ring, first guard: the index of the envelope
PopLookup(t) ==
    /\ pop_pc[t] = "lookup"
    /\ pop_idx' = [pop_idx EXCEPT ![t] = pop_lookup(pop_ring, pop_target[t][1])]
    /\ pop_pc' = [pop_pc EXCEPT ![t] =
                     IF is_some(pop_lookup(pop_ring, pop_target[t][1]))
                     THEN "remove" ELSE "adjust"]
    /\ UNCHANGED <<pop_ring, pop_target, pop_n>>
    /\ UNCHANGED popRest
    /\ UNCHANGED <<envVars, tpVars, chVars>>

\* pop_tx_from_ring, second guard: tx_ring.lock().await.remove(i.unwrap())
PopRemove(t) ==
    /\ pop_pc[t] = "remove"
    /\ pop_ring' = pop_remove(pop_ring, pop_idx[t][1])
    /\ pop_pc' = [pop_pc EXCEPT ![t] = "adjust"]
    /\ UNCHANGED <<pop_target, pop_idx, pop_n>>
    /\ UNCHANGED popRest
    /\ UNCHANGED <<envVars, tpVars, chVars>>

\* adjust_params, and run() returns
PopAdjust(t) ==
    /\ pop_pc[t] = "adjust"
    /\ pop_pc' = [pop_pc EXCEPT ![t] = "idle"]
    /\ pop_idx' = [pop_idx EXCEPT ![t] = None]
    /\ UNCHANGED <<pop_ring, pop_target, pop_n>>
    /\ UNCHANGED popRest
    /\ UNCHANGED <<envVars, tpVars, chVars>>

NextPop ==
    \/ PopSend
    \/ \E t \in Callbacks, e \in 1..MaxPopSends : Signal(t, e)
    \/ \E t \in Callbacks : PopLookup(t)
    \/ \E t \in Callbacks : PopRemove(t)
    \/ \E t \in Callbacks : PopAdjust(t)

SpecPop == InitPop /\ [][NextPop]_vars

\* ------------------------------------------------------------------------
\* SpecRace: Transport::link called from two tasks.  Each handler.lock().await
\* and each link.lock().await is one step.  Links are named by the order of
\* their creation; every Link::new draws a fresh identity.
MaxLinkCalls == 3

InitRace ==
    /\ race_out_links = [d \in RaceDests |-> None]
    /\ race_status = <<>>
    /\ race_sent = {}
    /\ race_pc = [c \in Callers |-> "idle"]
    /\ race_dest = [c \in Callers |-> None]
    /\ race_link = [c \in Callers |-> None]
    /\ race_calls = 0
    /\ IdleAdj
    /\ IdlePop
    /\ IdlePath
    /\ loop_pc = [t \in Tasks |-> "exited"]
    /\ observed = [t \in Tasks |-> FALSE]
    /\ IdleLk
    /\ IdleEnv
    /\ IdleTp
    /\ IdleCh

raceRest == <<loop_pc, observed, lkVars, adjVars, popVars, pathVars>>

\* link(destination): handler.lock().await.out_links.get(..).cloned()
RaceLookup(c, d) ==
    /\ race_pc[c] \in {"idle", "returned"}
    /\ race_calls < MaxLinkCalls
    /\ race_calls' = race_calls + 1
    /\ race_dest' = [race_dest EXCEPT ![c] = Some(d)]
    /\ race_link' = [race_link EXCEPT ![c] = race_out_links[d]]
    /\ race_pc' = [race_pc EXCEPT ![c] =
                      IF is_some(race_out_links[d]) THEN "check" ELSE "create"]
    /\ UNCHANGED <<race_out_links, race_status, race_sent>>
    /\ UNCHANGED raceRest
    /\ UNCHANGED <<envVars, tpVars, chVars>>

\* if link.lock().await.status() != Closed { return link }
RaceCheck(c) ==
    /\ race_pc[c] = "check"
    /\ race_pc' = [race_pc EXCEPT ![c] =
                      IF race_status[race_link[c][1]] /= "Closed"
                      THEN "returned" ELSE "create"]
    /\ UNCHANGED <<race_out_links, race_status, race_sent, race_dest, race_link,
                   race_calls>>
    /\ UNCHANGED raceRest
    /\ UNCHANGED <<envVars, tpVars, chVars>>

\* Link::new(destination, ..); link.request(); Arc::new(Mutex::new(link))
RaceCreate(c) ==
    /\ race_pc[c] = "create"
    /\ race_status' = Append(race_status, "Pending")
    /\ race_link' = [race_link EXCEPT ![c] = Some(Len(race_status) + 1)]
    /\ race_pc' = [race_pc EXCEPT ![c] = "send"]
    /\ UNCHANGED <<race_out_links, race_sent, race_dest, race_calls>>
    /\ UNCHANGED raceRest
    /\ UNCHANGED <<envVars, tpVars, chVars>>

\* self.send_packet(packet).await
RaceSendRequest(c) ==
    /\ race_pc[c] = "send"
    /\ race_sent' = race_sent \cup {race_link[c][1]}
    /\ race_pc' = [race_pc EXCEPT ![c] = "insert"]
    /\ UNCHANGED <<race_out_links, race_status, race_dest, race_link, race_calls>>
    /\ UNCHANGED raceRest
    /\ UNCHANGED <<envVars, tpVars, chVars>>

\* handler.lock().await.out_links.insert(address_hash, link.clone()); link
RaceInsert(c) ==
    /\ race_pc[c] = "insert"
    /\ race_out_links' = [race_out_links EXCEPT ![race_dest[c][1]] = race_link[c]]
    /\ race_pc' = [race_pc EXCEPT ![c] = "returned"]
    /\ UNCHANGED <<race_status, race_sent, race_dest, race_link, race_calls>>
    /\ UNCHANGED raceRest
    /\ UNCHANGED <<envVars, tpVars, chVars>>

\* a link in out_links is closed by its owner or by the link check
RaceClose(d) ==
    /\ is_some(race_out_links[d])
    /\ race_status[race_out_links[d][1]] /= "Closed"
    /\ race_status' = [race_status EXCEPT ![race_out_links[d][1]] = "Closed"]
    /\ UNCHANGED <<race_out_links, race_sent, race_pc, race_dest, race_link,
                   race_calls>>
    /\ UNCHANGED raceRest
    /\ UNCHANGED <<envVars, tpVars, chVars>>

NextRace ==
    \/ \E c \in Callers, d \in RaceDests : RaceLookup(c, d)
    \/ \E c \in Callers : RaceCheck(c)
    \/ \E c \in Callers : RaceCreate(c)
    \/ \E c \in Callers : RaceSendRequest(c)
    \/ \E c \in Callers : RaceInsert(c)
    \/ \E d \in RaceDests : RaceClose(d)

SpecRace == InitRace /\ [][NextRace]_vars

\* ------------------------------------------------------------------------
\* SpecPath: PathRequests of one transport, generating path requests and
\* decoding the data of received ones.  Addresses and tags are byte
\* sequences of their real lengths.
ADDRESS_HASH_SIZE == 16
MaxPathCalls == 3
MaxTagLen == 18

\* an address hash: ADDRESS_HASH_SIZE bytes
Address(b) == [i \in 1..ADDRESS_HASH_SIZE |-> b]

\* a tag of n bytes, every byte different
TagOf(n, b) == [i \in 1..n |-> b + i]

Slice(data, from, to) == [i \in 1..(to - from) |-> data[from + i]]

\* PathRequest::decode; from and to count bytes as the slices of the code do
PathRequest_decode(data) ==
    IF Len(data) <= ADDRESS_HASH_SIZE THEN None
    ELSE LET with_transport == Len(data) > ADDRESS_HASH_SIZE * 2
             tag_start == IF with_transport THEN ADDRESS_HASH_SIZE * 2
                          ELSE ADDRESS_HASH_SIZE
             tag_end == IF Len(data) - tag_start > ADDRESS_HASH_SIZE
                        THEN tag_start + ADDRESS_HASH_SIZE
                        ELSE Len(data)
         IN  Some([destination |-> Slice(data, 0, ADDRESS_HASH_SIZE),
                   requesting_transport |->
                       IF with_transport
                       THEN Some(Slice(data, ADDRESS_HASH_SIZE, 2 * ADDRESS_HASH_SIZE))
                       ELSE None,
                   tag_bytes |-> Slice(data, tag_start, tag_end)])

\* mutant: the cache is filled but its answer is not looked at
PathRequests_decode_every(cache, data) ==
    LET path_request == PathRequest_decode(data)
    IN  IF is_some(path_request)
        THEN [cache |-> cache \cup {<<path_request[1].destination,
                                       path_request[1].tag_bytes>>},
              request |-> path_request]
        ELSE [cache |-> cache, request |-> None]

\* PathRequests::decode
PathRequests_decode(cache, data) ==
    LET path_request == PathRequest_decode(data)
    IN  IF is_some(path_request)
        THEN LET key == <<path_request[1].destination, path_request[1].tag_bytes>>
             IN  [cache |-> cache \cup {key},
                  request |-> IF key \in cache THEN None ELSE path_request]
        ELSE [cache |-> cache, request |-> None]

\* the address hash of the controlled destination rnstransport/path.request
PathRequestDestination == "path.request"

\* mutant: the transport id is left out of the data
PathRequests_generate_no_id(transport_id, destination, tag) ==
    [Pkt("Data", "Plain", PathRequestDestination, "None", destination \o tag, 0)
        EXCEPT !.transport = transport_id]

\* PathRequests::generate with Some(tag); the data buffer holds every
\* request the model builds
PathRequests_generate(transport_id, destination, tag) ==
    LET data == destination
                \o (IF is_some(transport_id) THEN transport_id[1] ELSE <<>>)
                \o tag
    IN  [Pkt("Data", "Plain", PathRequestDestination, "None", data, 0)
            EXCEPT !.transport = transport_id]

PathDests == {Address(1), Address(2)}
PathTransport == Address(9)
PathTags == {TagOf(1, 0), TagOf(16, 0), TagOf(16, 100), TagOf(MaxTagLen, 0)}

\* data of received path requests: well-formed ones with and without a
\* transport id, and ones too short to hold a tag
PathDatas ==
    {d \o t : d \in PathDests, t \in PathTags}
    \cup {d \o PathTransport \o t : d \in PathDests, t \in PathTags}
    \cup {Address(1), Slice(Address(1), 0, 10), <<>>}

InitPath ==
    /\ pr_transport_id \in {None, Some(PathTransport)}
    /\ pr_cache = {}
    /\ pr_asked = None
    /\ pr_packet = None
    /\ pr_last = NoDecode
    /\ pr_returned = <<>>
    /\ pr_calls = 0
    /\ IdleAdj
    /\ IdlePop
    /\ IdleRace
    /\ loop_pc = [t \in Tasks |-> "exited"]
    /\ observed = [t \in Tasks |-> FALSE]
    /\ IdleLk
    /\ IdleEnv
    /\ IdleTp
    /\ IdleCh

pathRest == <<loop_pc, observed, lkVars, adjVars, popVars, raceVars>>

\* path_requests.generate(destination, Some(tag))
PathGenerate(destination, tag) ==
    /\ pr_calls < MaxPathCalls
    /\ pr_packet' = Some(PathRequests_generate(pr_transport_id, destination, tag))
    /\ pr_asked' = Some([destination |-> destination, tag |-> tag])
    /\ pr_calls' = pr_calls + 1
    /\ UNCHANGED <<pr_transport_id, pr_cache, pr_last, pr_returned>>
    /\ UNCHANGED pathRest
    /\ UNCHANGED <<envVars, tpVars, chVars>>

\* path_requests.decode(data)
PathDecode(data) ==
    /\ pr_calls < MaxPathCalls
    /\ LET r == PathRequests_decode(pr_cache, data)
       IN  /\ pr_cache' = r.cache
           /\ pr_last' = [called |-> TRUE, data |-> data, request |-> r.request,
                          before |-> pr_cache]
           /\ pr_returned' = IF is_some(r.request)
                             THEN Append(pr_returned, <<r.request[1].destination,
                                                        r.request[1].tag_bytes>>)
                             ELSE pr_returned
    /\ pr_calls' = pr_calls + 1
    /\ UNCHANGED <<pr_transport_id, pr_asked, pr_packet>>
    /\ UNCHANGED pathRest
    /\ UNCHANGED <<envVars, tpVars, chVars>>

NextPath ==
    \/ \E d \in PathDests, t \in PathTags : PathGenerate(d, t)
    \/ \E data \in PathDatas : PathDecode(data)

SpecPath == InitPath /\ [][NextPath]_vars

\* ------------------------------------------------------------------------
\* SpecLock: threads running their lock programs against each other.
Scenes == {{"send", "delivered", "timeout"}, {"send", "dispatch"},
           {"api", "dispatch", "keep"}, {"dispatch", "delivered", "keep"}}

InitLock ==
    /\ lk_pc = [t \in Threads |-> 1]
    /\ lk_exhausted \in BOOLEAN
    /\ lk_scene \in Scenes
    /\ loop_pc = [t \in Tasks |-> "exited"]
    /\ observed = [t \in Tasks |-> FALSE]
    /\ IdleAux
    /\ IdleEnv
    /\ IdleTp
    /\ IdleCh

Prog(t) == Program(t, lk_exhausted)
Running(t) == t \in lk_scene /\ lk_pc[t] <= Len(Prog(t))
NextOp(t) == Prog(t)[lk_pc[t]]
Held(t) == IF t \in lk_scene THEN HeldAfter(Prog(t), lk_pc[t] - 1) ELSE {}
Holder(l) == {t \in Threads : l \in Held(t)}

Advance(t) ==
    /\ lk_pc' = [lk_pc EXCEPT ![t] = @ + 1]
    /\ UNCHANGED <<lk_exhausted, lk_scene, loop_pc, observed>>
    /\ UNCHANGED auxVars
    /\ UNCHANGED <<envVars, tpVars, chVars>>

\* lock().await returns: the mutex was free
Acquire(t) ==
    /\ Running(t)
    /\ NextOp(t).op = "acq"
    /\ Holder(NextOp(t).lock) = {}
    /\ Advance(t)

\* a guard is dropped
Release(t) ==
    /\ Running(t)
    /\ NextOp(t).op = "rel"
    /\ Advance(t)

\* InterfaceManager::send(message) is called and returns
IfaceManagerSend(t) ==
    /\ Running(t)
    /\ NextOp(t).op = "send"
    /\ Advance(t)

NextLock ==
    \E t \in Threads : Acquire(t) \/ Release(t) \/ IfaceManagerSend(t)

SpecLock == InitLock /\ [][NextLock]_vars

\* ------------------------------------------------------------------------
\* SpecCancel: the loops manage_transport spawns, each at its head or at its
\* select, and the cancellation token.
CnPackets == {Pkt("Data", "Single", "A", "None", <<1>>, 0)}

InitCancel ==
    /\ \E r \in BOOLEAN :
          /\ handler = NewHandler(FALSE, r)
          /\ loop_pc = [t \in Tasks |-> IF t = "announces" /\ ~r THEN "exited" ELSE "head"]
    /\ observed = [t \in Tasks |-> FALSE]
    /\ IdleLk
    /\ IdleAux
    /\ rx_queue = <<>>
    /\ packet_task = "tasks"
    /\ cancel = FALSE
    /\ last_filter = NoFilter
    /\ g_burst = <<>>
    /\ g_dropped = 0
    /\ g_hist = <<>>
    /\ n_inputs = 0
    /\ last_release = -1
    /\ IdleEnv
    /\ IdleCh

tpKept == <<rx_queue, packet_task, cancel, last_filter, g_burst, g_dropped,
            g_hist, n_inputs, last_release>>

\* the head of a loop: break when the token is cancelled, else on to the select
LoopHead(t) ==
    /\ packet_task = "tasks"
    /\ loop_pc[t] = "head"
    /\ loop_pc' = [loop_pc EXCEPT ![t] = at_head(cancel)]
    /\ observed' = [observed EXCEPT ![t] = at_head(cancel) = "exited"]
    /\ UNCHANGED <<handler, tpKept>>
    /\ UNCHANGED <<envVars, chVars>>
    /\ UNCHANGED <<lkVars, auxVars>>

\* select!: the branch `_ = cancel.cancelled() => break`
SelectCancelled(t) ==
    /\ packet_task = "tasks"
    /\ loop_pc[t] = "select"
    /\ cancel
    /\ loop_pc' = [loop_pc EXCEPT ![t] = "exited"]
    /\ observed' = [observed EXCEPT ![t] = TRUE]
    /\ UNCHANGED <<handler, tpKept>>
    /\ UNCHANGED <<envVars, chVars>>
    /\ UNCHANGED <<lkVars, auxVars>>

\* select! of the packet task: the branch `Some(message) = rx_receiver.recv()`
PacketEvent(st) ==
    /\ packet_task = "tasks"
    /\ loop_pc["packet"] = "select"
    /\ rx_queue /= <<>>
    /\ LET message == Head(rx_queue)
           f == filter_duplicate_packets(handler, message.packet)
       IN  /\ rx_queue' = Tail(rx_queue)
           /\ handler' = IF f.admit
                         THEN dispatch(f.h, message.packet, message.address, st)
                         ELSE f.h
           /\ loop_pc' = [loop_pc EXCEPT !["packet"] = IF f.admit THEN "head" ELSE "exited"]
    /\ UNCHANGED <<observed, packet_task, cancel, last_filter, g_burst, g_dropped,
                   g_hist, n_inputs, last_release>>
    /\ UNCHANGED <<envVars, chVars>>
    /\ UNCHANGED <<lkVars, auxVars>>

\* select! of a maintenance loop: the branch `_ = time::sleep(..)`
TimerEvent(t, stale) ==
    /\ packet_task = "tasks"
    /\ loop_pc[t] = "select"
    /\ handler' = timer_body(t, handler, stale)
    /\ loop_pc' = [loop_pc EXCEPT ![t] = "head"]
    /\ UNCHANGED <<observed, tpKept>>
    /\ UNCHANGED <<envVars, chVars>>
    /\ UNCHANGED <<lkVars, auxVars>>

TaskStep(t) ==
    \/ LoopHead(t)
    \/ SelectCancelled(t)
    \/ t = "packet" /\ \E st \in InLinkStatusAfterProve : PacketEvent(st)
    \/ t \in Loops /\ \E stale \in SUBSET DOMAIN handler.link_table :
                            TimerEvent(t, stale)

NextCancel ==
    \/ \E a \in LocalAddrs : AddDestination(a)
    \/ \E i \in Ifaces, p \in CnPackets : Submit(i, p)
    \/ DropTransport
    \/ \E t \in Tasks : TaskStep(t)

\* every spawned task is scheduled as long as it can take a step
SpecCancel ==
    InitCancel /\ [][NextCancel]_vars /\ \A t \in Tasks : WF_vars(TaskStep(t))

\* ------------------------------------------------------------------------
\* Channel: a sending channel on a link and the peer's receiving channel

\* Channel::new on a Pending link; slow is outlet_rtt() > RTT_SLOW
InitCh ==
    /\ ch_mode = "channel"
    /\ link_status = "Pending"
    /\ next_sequence = 0
    /\ tx_ring = <<>>
    /\ \E slow \in BOOLEAN : params = ChannelParams_new(slow)
    /\ wire = {}
    /\ next_rx_sequence = 0
    /\ rx_ring = <<>>
    /\ delivered = <<>>
    /\ overflow_checks \in BOOLEAN
    /\ panicked = FALSE
    /\ n_sends = 0
    /\ send_result = "None"
    /\ send_arg = Message(None, <<>>)
    /\ rx_base = 0
    /\ attempts = 0
    /\ n_timeouts = 0
    /\ message_callbacks = <<>>
    /\ invoked = <<>>
    /\ IdleEnv
    /\ IdleTp
    /\ IdleMt

\* the link request is proved: the link becomes Active
LinkActivate ==
    /\ ch_mode \in {"channel", "tx", "win"}
    /\ link_status = "Pending"
    /\ link_status' = "Active"
    /\ UNCHANGED <<ch_mode, next_sequence, tx_ring, params, wire,
                   next_rx_sequence, rx_ring, delivered, overflow_checks,
                   panicked, n_sends, send_result, send_arg, rx_base, attempts, n_timeouts>>
    /\ UNCHANGED cbVars
    /\ UNCHANGED <<envVars, tpVars, mtVars>>

LinkClose ==
    /\ ch_mode = "channel"
    /\ link_status /= "Closed"
    /\ link_status' = "Closed"
    /\ UNCHANGED <<ch_mode, next_sequence, tx_ring, params, wire,
                   next_rx_sequence, rx_ring, delivered, overflow_checks,
                   panicked, n_sends, send_result, send_arg, rx_base, attempts, n_timeouts>>
    /\ UNCHANGED cbVars
    /\ UNCHANGED <<envVars, tpVars, mtVars>>

\* the send bound and the messages offered, by specification
SendBound ==
    IF ch_mode = "tx" THEN MaxTxSends
    ELSE IF ch_mode = "win" THEN MaxWinSends
    ELSE MaxSends
Offered(id) ==
    IF ch_mode \in {"tx", "win"} THEN {m \in SendMessages(id) : Len(m.data) = 3 /\ is_some(m.message_type)}
    ELSE SendMessages(id)

\* the application calls send(message)
ChannelSend(message) ==
    /\ ch_mode \in {"channel", "tx", "win"}
    /\ ~panicked
    /\ n_sends < SendBound
    /\ ch_mode \in {"tx", "win"} => is_ready_to_send(tx_ring, link_status, params)
    /\ LET r == Channel_send(message, tx_ring, next_sequence, SenderNextRx,
                             link_status, params, overflow_checks)
       IN  /\ tx_ring' = r.tx_ring
           /\ next_sequence' = r.next_sequence
           /\ wire' = wire \cup r.sent
           /\ panicked' = r.panic
           /\ send_result' = r.result
           /\ attempts' = IF r.sent = {} THEN attempts ELSE 1
    /\ send_arg' = message
    /\ n_sends' = n_sends + 1
    /\ UNCHANGED <<ch_mode, link_status, params, next_rx_sequence, rx_ring,
                   delivered, overflow_checks, rx_base, n_timeouts>>
    /\ UNCHANGED cbVars
    /\ UNCHANGED <<envVars, tpVars, mtVars>>

\* a packet on the wire (or a copy of it) reaches the peer's receive()
PeerReceive(packet) ==
    /\ ch_mode = "channel"
    /\ ~panicked
    /\ packet \in wire
    /\ LET r == receive(packet.data, rx_ring, next_rx_sequence,
                        RegisteredTypes, overflow_checks)
       IN  /\ rx_ring' = r.rx_ring
           /\ next_rx_sequence' = r.next_rx_sequence
           /\ delivered' = delivered \o r.delivered
           /\ panicked' = r.panic
    /\ UNCHANGED <<ch_mode, link_status, next_sequence, tx_ring, params, wire,
                   overflow_checks, n_sends, send_result, send_arg, rx_base, attempts, n_timeouts>>
    /\ UNCHANGED cbVars
    /\ UNCHANGED <<envVars, tpVars, mtVars>>

\* the outlet runs the delivered callback registered for a sent packet
PacketDelivered(packet, rtt) ==
    /\ ch_mode \in {"channel", "tx", "win"}
    /\ ~panicked
    /\ packet \in wire
    /\ LET r == PacketDeliveredCallback_run(tx_ring, params, packet, rtt)
       IN  /\ tx_ring' = r.tx_ring
           /\ params' = r.params
    /\ UNCHANGED <<ch_mode, link_status, next_sequence, wire, next_rx_sequence,
                   rx_ring, delivered, overflow_checks, panicked, n_sends,
                   send_result, send_arg, rx_base, attempts, n_timeouts>>
    /\ UNCHANGED cbVars
    /\ UNCHANGED <<envVars, tpVars, mtVars>>

\* the outlet runs the timeout callback registered for a sent packet; a
\* resend is one more transmission, timed_out() closes the link
PacketTimeout(packet, rtt) ==
    /\ ch_mode = "tx"
    /\ ~panicked
    /\ packet \in wire
    /\ n_timeouts < MaxTimeouts
    /\ LET r == PacketTimeoutCallback_run(tx_ring, params, packet, rtt)
       IN  /\ tx_ring' = r.tx_ring
           /\ params' = r.params
           /\ attempts' = IF r.resent
                           THEN tx_ring[find_tx_envelope(tx_ring, packet)].tries + 1
                           ELSE attempts
           /\ link_status' = IF r.timed_out THEN "Closed" ELSE link_status
    /\ n_timeouts' = n_timeouts + 1
    /\ UNCHANGED <<ch_mode, next_sequence, wire, next_rx_sequence, rx_ring,
                   delivered, overflow_checks, panicked, n_sends, send_result,
                   send_arg, rx_base>>
    /\ UNCHANGED cbVars
    /\ UNCHANGED <<envVars, tpVars, mtVars>>

NextCh ==
    \/ LinkActivate
    \/ LinkClose
    \/ \E m \in Offered(n_sends) : ChannelSend(m)
    \/ \E p \in wire : PeerReceive(p)
    \/ \E p \in wire, rtt \in RttVals : PacketDelivered(p, rtt)

\* ------------------------------------------------------------------------
\* The sending channel alone, with an outlet that runs the delivered and the
\* timeout callbacks of the packets it was given.  The application sends
\* well-formed messages and only while the channel is ready (a rejected
\* send changes nothing, see Spec).  Two kinds of run start here: "tx", a
\* few sends with timeouts (an unresponsive peer), and "win", many sends
\* that are all delivered (the window bands).

InitTx ==
    /\ ch_mode \in {"tx", "win"}
    /\ link_status = "Pending"
    /\ next_sequence = 0
    /\ tx_ring = <<>>
    /\ \E slow \in BOOLEAN : params = ChannelParams_new(slow)
    /\ wire = {}
    /\ next_rx_sequence = 0
    /\ rx_ring = <<>>
    /\ delivered = <<>>
    /\ overflow_checks \in BOOLEAN
    /\ panicked = FALSE
    /\ n_sends = 0
    /\ send_result = "None"
    /\ send_arg = Message(None, <<>>)
    /\ rx_base = 0
    /\ attempts = 0
    /\ n_timeouts = 0
    /\ message_callbacks = <<>>
    /\ invoked = <<>>
    /\ IdleEnv
    /\ IdleTp
    /\ IdleMt

\* the packets whose callbacks are set: those of the envelopes in the tx-ring
Tracked == {tx_ring[i].packet[1] : i \in {j \in DOMAIN tx_ring : is_some(tx_ring[j].packet)}}

NextTx ==
    \/ LinkActivate
    \/ \E m \in Offered(n_sends) : ChannelSend(m)
    \/ \E p \in Tracked, rtt \in RttTx : PacketDelivered(p, rtt)
    \/ \E p \in Tracked, rtt \in RttTx : PacketTimeout(p, rtt)

\* ------------------------------------------------------------------------
\* The receiving channel alone: envelopes of the peer's messages arrive in
\* any order, with copies

InitRx ==
    /\ ch_mode = "rx"
    /\ rx_base \in RxStarts
    /\ next_rx_sequence = rx_base % U16
    /\ rx_ring = <<>>
    /\ delivered = <<>>
    /\ overflow_checks \in BOOLEAN
    /\ panicked = FALSE
    /\ link_status = "Pending"
    /\ next_sequence = 0
    /\ tx_ring = <<>>
    /\ params = ChannelParams_new(FALSE)
    /\ wire = {}
    /\ n_sends = 0
    /\ send_result = "None"
    /\ send_arg = Message(None, <<>>)
    /\ attempts = 0
    /\ n_timeouts = 0
    /\ message_callbacks = <<>>
    /\ invoked = <<>>
    /\ IdleEnv
    /\ IdleTp
    /\ IdleMt

\* send index of the message the receiver is waiting for
next_id == rx_base + Len(delivered)

\* what may arrive: the last delivered message again, the awaited one, the
\* next Ahead - 1 after it, and old copies of the messages in OldIds
Arrivals ==
    {id \in (rx_base)..(rx_base + MaxMsgs - 1) :
        next_id - 1 <= id /\ id < next_id + Ahead}
    \cup {id \in OldIds : id < next_id}

Receive(id) ==
    /\ ch_mode = "rx"
    /\ ~panicked
    /\ id \in Arrivals
    /\ LET r == receive(raw_of(id), rx_ring, next_rx_sequence,
                        RegisteredTypes, overflow_checks)
       IN  /\ rx_ring' = r.rx_ring
           /\ next_rx_sequence' = r.next_rx_sequence
           /\ delivered' = delivered \o r.delivered
           /\ panicked' = r.panic
    /\ UNCHANGED <<ch_mode, link_status, next_sequence, tx_ring, params, wire,
                   overflow_checks, n_sends, send_result, send_arg, rx_base, attempts, n_timeouts>>
    /\ UNCHANGED cbVars
    /\ UNCHANGED <<envVars, tpVars, mtVars>>

\* raw bytes that are no well-formed envelope of the awaited message: too
\* short for the header, of a type no factory is registered for, or with a
\* size field that is not the length of the payload
UnregisteredType == 258

WithSize(raw, size) == [raw EXCEPT ![5] = size % 256, ![6] = size \div 256]

ShortRaws == {<<1, 1, 0>>, <<1, 1, 0, 0, 3>>}
UnknownTypeRaws ==
    {envelope_raw(payload_of(next_id, 3), UnregisteredType, Some(next_id % U16))}
MismatchRaws == {WithSize(raw_of(next_id), z) : z \in {0, 7, SEQ_MAX}}
    \cup {WithSize(r, SEQ_MAX) : r \in UnknownTypeRaws}

MalformedRaws == ShortRaws \cup UnknownTypeRaws \cup MismatchRaws

\* the outlet hands arbitrary bytes to receive()
ReceiveRaw(raw) ==
    /\ ch_mode = "rx"
    /\ ~panicked
    /\ next_id < rx_base + MaxMsgs
    /\ LET r == receive(raw, rx_ring, next_rx_sequence,
                        RegisteredTypes, overflow_checks)
       IN  /\ rx_ring' = r.rx_ring
           /\ next_rx_sequence' = r.next_rx_sequence
           /\ delivered' = delivered \o r.delivered
           /\ panicked' = r.panic
    /\ UNCHANGED <<ch_mode, link_status, next_sequence, tx_ring, params, wire,
                   overflow_checks, n_sends, send_result, send_arg, rx_base, attempts, n_timeouts>>
    /\ UNCHANGED cbVars
    /\ UNCHANGED <<envVars, tpVars, mtVars>>

NextRx ==
    \/ \E id \in Arrivals : Receive(id)
    \/ \E raw \in MalformedRaws : ReceiveRaw(raw)


\* ------------------------------------------------------------------------
\* The message handlers of a channel: handlers are added and removed, and
\* run_callbacks is called for a delivered message

InitCb ==
    /\ ch_mode = "cb"
    /\ message_callbacks = <<>>
    /\ invoked = <<>>
    /\ link_status = "Pending"
    /\ next_sequence = 0
    /\ tx_ring = <<>>
    /\ params = ChannelParams_new(FALSE)
    /\ wire = {}
    /\ next_rx_sequence = 0
    /\ rx_ring = <<>>
    /\ delivered = <<>>
    /\ overflow_checks = FALSE
    /\ panicked = FALSE
    /\ n_sends = 0
    /\ send_result = "None"
    /\ send_arg = Message(None, <<>>)
    /\ rx_base = 0
    /\ attempts = 0
    /\ n_timeouts = 0
    /\ IdleEnv
    /\ IdleTp
    /\ IdleMt

chRest == <<ch_mode, link_status, next_sequence, tx_ring, params, wire,
            next_rx_sequence, rx_ring, delivered, overflow_checks, panicked,
            n_sends, send_result, send_arg, rx_base, attempts, n_timeouts>>

AddMessageHandler(callback) ==
    /\ ch_mode = "cb"
    /\ Len(message_callbacks) < MaxHandlers
    /\ message_callbacks' = add_message_handler(message_callbacks, callback)
    /\ invoked' = <<>>
    /\ UNCHANGED chRest
    /\ UNCHANGED <<envVars, tpVars, mtVars>>

RemoveMessageHandler(id) ==
    /\ ch_mode = "cb"
    /\ message_callbacks' = remove_message_handler(message_callbacks, id)
    /\ invoked' = <<>>
    /\ UNCHANGED chRest
    /\ UNCHANGED <<envVars, tpVars, mtVars>>

\* receive() hands one delivered message to run_callbacks
RunCallbacks ==
    /\ ch_mode = "cb"
    /\ message_callbacks /= <<>>
    /\ invoked' = run_callbacks(message_callbacks)
    /\ UNCHANGED message_callbacks
    /\ UNCHANGED chRest
    /\ UNCHANGED <<envVars, tpVars, mtVars>>

NextCb ==
    \/ \E r \in HandlerReturns : AddMessageHandler(r)
    \/ \E id \in 1..MaxHandlers : RemoveMessageHandler(id)
    \/ RunCallbacks

Spec == InitCh /\ [][NextCh]_vars

SpecRx == InitRx /\ [][NextRx]_vars

SpecTx == InitTx /\ [][NextTx]_vars

SpecCb == InitCb /\ [][NextCb]_vars

\* ------------------------------------------------------------------------
\* Claims on the envelope codec

\* C7: envelope_raw(payload, type, seq) is the 6-byte header message_type,
\* sequence, size, each a big-endian u16, followed by the payload; payload
\* [0x43,0x11,0x00], type 0x1000, seq 10 gives
\* [0x10,0x00,0x00,0x0A,0x00,0x03,0x43,0x11,0x00].
C7_BigEndianHeader ==
    e_pc \in {"packed", "parsed"} =>
        /\ e_raw = to_be_bytes(e_message_type)
                     \o to_be_bytes(unwrap_or(e_sequence, 0))
                     \o to_be_bytes(Len(e_data))
                     \o e_data
        /\ (e_data = <<67, 17, 0>> /\ e_message_type = 4096 /\ e_sequence = Some(10))
              => e_raw = <<16, 0, 0, 10, 0, 3, 67, 17, 0>>

\* C8: deenvelope_raw(envelope_raw(payload, type, seq)) = (type, seq,
\* len(payload)) and the bytes after the 6-byte header are the payload.
C8_RoundTrip ==
    e_pc = "parsed" =>
        /\ e_parsed = Ok3(e_message_type, unwrap_or(e_sequence, 0), Len(e_data))
        /\ SubSeq(e_raw, 7, Len(e_raw)) = e_data

C8_Witness ==
    /\ e_pc = "parsed"
    /\ e_data = <<67, 17, 0>>
    /\ e_message_type = 4096
    /\ e_sequence = Some(10)
    /\ e_parsed.tag = "Ok"

\* ------------------------------------------------------------------------
\* Claims on the Transport's duplicate filter and inbound pipeline

D1 == Pkt("Data", "Single", "A", "None", <<1>>, 0)
D2 == Pkt("Data", "Single", "A", "None", <<3, 3, 3>>, 0)

\* C1: after the packet task has dropped a duplicate it keeps running, so
\* every fresh packet that arrives later is still dispatched (the task stops
\* only when the Transport is cancelled), and the duplicate itself produces
\* no second ReceivedData event.
C1_RunsOnAfterDuplicate ==
    /\ (g_dropped > 0 /\ ~cancel) => packet_task = "running"
    /\ \A k \in DOMAIN g_burst : k.packet_type = "Data" => g_burst[k] <= 1

\* C4: filter_duplicate_packets admits a non-announce packet the first time
\* its hash is seen, rejects it while the hash is cached, admits a packet of
\* different content, and admits the first again once release(max_age) has
\* evicted the entry for being older than max_age.
C4_DropDuplicates ==
    /\ \A k \in DOMAIN g_hist :
          k.packet_type /= "Announce" => g_hist[k][1] = TRUE
    /\ (last_filter.called /\ last_filter.packet.packet_type /= "Announce")
          => last_filter.admit = ~last_filter.cached_before
    /\ last_release >= 0
          => \A k \in DOMAIN handler.packet_cache :
                 handler.packet_cache[k] <= last_release

C4_Witness ==
    /\ packet_hash(D1) \in DOMAIN g_hist
    /\ packet_hash(D2) \in DOMAIN g_hist
    /\ g_hist[packet_hash(D1)] = <<TRUE, FALSE, TRUE>>
    /\ g_hist[packet_hash(D2)] = <<TRUE>>

\* C5: the filter admits every Announce, admits a LinkRequestProof Proof for
\* an in-link that is not yet active even when its hash is cached, and admits
\* any other packet only if the cache reports it new: an admitted packet is
\* fresh or one of the two exceptions.
C5_AdmitRule ==
    last_filter.called =>
        (last_filter.admit <=>
            \/ last_filter.packet.packet_type = "Announce"
            \/ last_filter.exception
            \/ ~last_filter.cached_before)

C5_Witness ==
    /\ last_filter.called
    /\ last_filter.admit
    /\ last_filter.cached_before
    /\ last_filter.exception

\* C6: two immediate submissions of any packet p cause exactly one
\* application-level effect: with no time passing between them, at most one
\* AnnounceEvent, ReceivedData event or link transition comes from p.
C6_OneEffectPerPacket ==
    \A k \in DOMAIN g_burst : g_burst[k] <= 1


\* ------------------------------------------------------------------------
\* Claims on the Channel

\* the send indices the receiver has given to its handlers
DeliveredIds == {delivered[i].id : i \in DOMAIN delivered}

\* C2: whatever the arrival order of the envelopes (reordered, duplicated,
\* retransmitted), the handlers observe the messages in strictly ascending
\* send order, the sequence numbers following each other modulo 2^16.
C2_AscendingOrder ==
    \A i \in 1..(Len(delivered) - 1) :
        /\ delivered[i].id < delivered[i + 1].id
        /\ delivered[i + 1].sequence = (delivered[i].sequence + 1) % U16

\* C3: every message is delivered exactly once: no message is given to the
\* handlers twice, and an envelope of a message that was already delivered
\* (before the start or since) is neither buffered nor delivered again.
C3_ExactlyOnce ==
    /\ \A i, j \in DOMAIN delivered : i /= j => delivered[i].id /= delivered[j].id
    /\ \A i \in DOMAIN delivered : delivered[i].id >= rx_base
    /\ \A k \in DOMAIN rx_ring :
          LET id == msg_id(rx_ring[k].raw[1])
          IN  id >= rx_base /\ id \notin DeliveredIds
\* the envelopes of the tx-ring that were sent and are not yet delivered
SentOutstanding(ring) == Cardinality({i \in DOMAIN ring : is_some(ring[i].packet)})

\* a message with a type whose envelope fits the MDU
WellFormed(m) ==
    /\ is_some(m.message_type)
    /\ Len(envelope_raw(m.data, m.message_type[1], None)) <= PACKET_MDU

\* C9: send() returns LinkNotReady, transmits nothing and leaves
\* next_sequence, the tx-ring and the window parameters unchanged whenever
\* the link is not Active or the outstanding envelopes are at least the
\* window; with the link Active and room in the window the send of a
\* well-formed message succeeds and puts exactly one packet on the wire.
C9_LinkNotReady ==
    [][n_sends' = n_sends + 1 =>
        /\ (link_status /= "Active" \/ SentOutstanding(tx_ring) >= params.window)
              => send_result' = "LinkNotReady"
        /\ send_result' = "LinkNotReady"
              => UNCHANGED <<next_sequence, tx_ring, params, wire>>
        /\ (link_status = "Active" /\ SentOutstanding(tx_ring) < params.window
                /\ WellFormed(send_arg'))
              => /\ send_result' = "Ok"
                 /\ \E packet \in wire' \ wire : wire' = wire \cup {packet}
      ]_vars

\* C10: a send() rejected with TooBig is rejected before the envelope is
\* put into the tx-ring: the ring holds the same envelopes as before the call.
C10_TooBigBeforeInsert ==
    [][(n_sends' = n_sends + 1 /\ send_result' = "TooBig") => tx_ring' = tx_ring]_vars
\* C11: no envelope is transmitted more than max_tries = 5 times in total
\* (the send plus the resends); the timeout after the 5th transmission
\* closes the link instead of re-sending.
C11_RetryBound ==
    /\ attempts <= params.max_tries
    /\ \A i \in DOMAIN tx_ring : tx_ring[i].tries <= params.max_tries
\* a timeout callback found the retries of its envelope exhausted
Exhausted == n_timeouts' = n_timeouts + 1 /\ link_status = "Active" /\ link_status' = "Closed"

\* C12: when an envelope's retries are exhausted the channel is torn down:
\* no envelope keeps its callbacks, the tx-ring and the rx-ring are empty,
\* the link is closed, and the window is not enlarged by the event.
C12_TearDown ==
    [][Exhausted =>
        /\ tx_ring' = <<>>
        /\ rx_ring' = <<>>
        /\ Tracked' = {}
        /\ params'.window <= params.window
      ]_vars
\* C13: in every reachable state window_min <= window <= window_max, also
\* right after a band promotion has raised window_min and window_max.
C13_WindowBounds ==
    /\ params.window_min <= params.window
    /\ params.window <= params.window_max

\* C14: in every reachable state the envelopes that were sent and are not
\* yet delivered are at most window, also after a timeout has shrunk the
\* window while envelopes were in flight.
C14_OutstandingWithinWindow == SentOutstanding(tx_ring) <= params.window
\* the handlers that are registered and not removed
Registered == {i \in DOMAIN message_callbacks : is_some(message_callbacks[i])}

\* C15: a delivered message is passed to every registered (not removed)
\* handler, whatever the earlier handlers return.
C15_EveryHandler ==
    invoked /= <<>> => \A i \in Registered : \E k \in DOMAIN invoked : invoked[k] = i
\* C16: the receive sequence wraps from 0xFFFF to 0 with no fault and no
\* stall: with next_rx_sequence = 0xFFFF and nothing buffered, no arriving
\* envelope ends the receiver, and once sequence 0xFFFF is delivered the
\* receiver awaits sequence 0.
C16_WrapNoFault ==
    [][(~panicked /\ next_rx_sequence = SEQ_MAX /\ rx_ring = <<>>)
          => /\ ~panicked'
             /\ Len(delivered') > Len(delivered) => next_rx_sequence' < WINDOW_MAX
      ]_vars
\* C17: links are found by their link id.  Every out-link stored by link(dest)
\* is what find_out_link returns for its id, and every stored in-link is what
\* find_in_link returns for its id.
C17_FoundById ==
    /\ \A d \in DOMAIN handler.out_links :
          find_out_link(handler, handler.out_links[d].id) = Some(handler.out_links[d])
    /\ \A k \in DOMAIN handler.in_links :
          find_in_link(handler, handler.in_links[k].id) = Some(handler.in_links[k])

\* announce events of destination d, in order: indices into announce_tx
AnnouncesOf(d) ==
    {k \in DOMAIN handler.announce_tx :
        handler.announce_tx[k].destination.address_hash = d}

\* C18: valid announces of one destination leave exactly one entry for it in
\* the output-destination map: the entry appears with the first announce and
\* is the destination that announce created, whatever came later.
C18_AnnounceIdempotent ==
    /\ DOMAIN handler.single_out_destinations =
          {handler.announce_tx[k].destination.address_hash : k \in DOMAIN handler.announce_tx}
    /\ \A d \in DOMAIN handler.single_out_destinations :
          LET first == CHOOSE k \in AnnouncesOf(d) : \A j \in AnnouncesOf(d) : k <= j
          IN  handler.single_out_destinations[d] = handler.announce_tx[first].destination

C18_Witness ==
    \E d \in DOMAIN handler.single_out_destinations : Cardinality(AnnouncesOf(d)) >= 2

\* the messages a step hands to the interfaces that carry the packet p on
Forwarded(p) ==
    {m \in handler'.tx \ handler.tx : packet_hash(m.packet) = packet_hash(p)}

\* C19: hop monotonicity.  When the packet task takes a received packet,
\* every copy of it the Transport forwards or re-broadcasts has more hops than
\* the packet came with, and none is sent on when it came with PATHFINDER_M
\* hops or more.
C19_HopMonotone ==
    [][(packet_task = "running" /\ rx_queue /= <<>> /\ rx_queue' = Tail(rx_queue)) =>
          LET p == Head(rx_queue).packet
          IN  \A m \in Forwarded(p) :
                 /\ m.packet.hops > p.hops
                 /\ p.hops < PATHFINDER_M]_vars

AllExited == \A t \in Tasks : loop_pc[t] = "exited"

Sending(t) == Running(t) /\ NextOp(t).op = "send"

\* C21: the Transport Handler's guard is never held while a message is handed
\* to the Interface Manager.
C21_NoHandlerLockAcrossSend ==
    \A t \in Threads : Sending(t) => "handler" \notin Held(t)

\* a thread waits for a lock another thread holds
Waiting(t) == Running(t) /\ NextOp(t).op = "acq" /\ Holder(NextOp(t).lock) /= {}

\* C22: no deadlock.  No interleaving of a Channel send, the packet
\* callbacks and the inbound dispatch reaches a state where each thread of a
\* set waits for a lock held by another thread of the set.
C22_NoDeadlock ==
    ~ \E S \in SUBSET Threads :
          /\ S /= {}
          /\ \A t \in S : Waiting(t) /\ Holder(NextOp(t).lock) \subseteq S

\* what handle_link_request must have done with the request p from iface
LinkRequestHandled(h, h2, p, iface) ==
    LET link_id == link_id_from(p)
        proof == TxBroadcast(None, proof_packet(link_id))
    IN  IF p.destination \in h.single_in_destinations
        THEN IF link_id \in DOMAIN h.in_links
             THEN h2 = h
             ELSE /\ DOMAIN h2.in_links = DOMAIN h.in_links \cup {link_id}
                  /\ h2.in_links[link_id].id = link_id
                  /\ \A k \in DOMAIN h.in_links : h2.in_links[k] = h.in_links[k]
                  /\ proof \in h2.tx
                  /\ h2.tx \subseteq h.tx \cup {proof}
                  /\ h2.link_table = h.link_table
        ELSE IF p.destination \in DOMAIN h.path_table
        THEN /\ link_id \in DOMAIN h2.link_table
             /\ DOMAIN h2.link_table = DOMAIN h.link_table \cup {link_id}
             /\ link_id \notin DOMAIN h.link_table =>
                   /\ h2.link_table[link_id].original_destination = p.destination
                   /\ h2.link_table[link_id].received_from = iface
             /\ TxDirect(h.path_table[p.destination].iface,
                         [p EXCEPT !.hops = @ + 1]) \in h2.tx
             /\ h2.in_links = h.in_links
        ELSE h2 = h

Relayed(p) ==
    {m \in handler'.tx \ handler.tx : m.tx_type = "Broadcast" /\ m.packet = p}

\* C25: when the packet task takes a packet, then with config.broadcast set an
\* admitted packet that is no Announce is re-broadcast to all interfaces but
\* the one it came from, and in no other way; an Announce, a packet that is
\* not admitted, and any packet with broadcast unset is not re-broadcast.
C25_BroadcastRelay ==
    [][(packet_task = "running" /\ rx_queue /= <<>> /\ rx_queue' = Tail(rx_queue)) =>
          LET message == Head(rx_queue)
              p == message.packet
          IN  IF /\ handler.config.broadcast
                 /\ last_filter'.admit
                 /\ p.packet_type /= "Announce"
              THEN /\ TxBroadcast(Some(message.address), p) \in handler'.tx
                   /\ \A m \in Relayed(p) : m.addr = Some(message.address)
              ELSE Relayed(p) = {}]_vars

C25_Witness ==
    /\ handler.config.broadcast
    /\ \E m \in handler.tx :
          /\ m.tx_type = "Broadcast"
          /\ m.addr = Some("I1")
          /\ m.packet.packet_type = "Data"
    /\ \E k \in DOMAIN handler.announce_tx : TRUE

\* C26: each link check removes exactly the in-links older than 20 s and the
\* Closed out-links, restarts exactly the Active out-links older than 60 s,
\* sends again the LinkRequest of exactly the Pending out-links older than
\* 6 s, and leaves every other link in its table as it was; no request is
\* sent for a Closed out-link.
RequestOf(l) == TxBroadcast(None, link_request_packet(l.destination, l.key))

LinksChecked(h, h2) ==
    /\ DOMAIN h2.in_links = {k \in DOMAIN h.in_links : h.in_links[k].elapsed <= 20}
    /\ \A k \in DOMAIN h2.in_links : h2.in_links[k] = h.in_links[k]
    /\ DOMAIN h2.out_links = {d \in DOMAIN h.out_links : h.out_links[d].status /= "Closed"}
    /\ \A d \in DOMAIN h2.out_links :
          LET l == h.out_links[d]
          IN  IF l.status = "Active" /\ l.elapsed > 60
              THEN h2.out_links[d] = [l EXCEPT !.elapsed = 0]
              ELSE h2.out_links[d] = l
    /\ \A d \in DOMAIN h.out_links :
          LET l == h.out_links[d]
          IN  IF l.status = "Pending" /\ l.elapsed > 6
              THEN RequestOf(l) \in h2.tx
              ELSE RequestOf(l) \in h2.tx => RequestOf(l) \in h.tx
    /\ h2.tx \subseteq h.tx \cup {RequestOf(h.out_links[d]) : d \in DOMAIN h.out_links}

C26_LinkCheck == [][HandleCheckLinks => LinksChecked(handler, handler')]_vars

\* a check has removed an in-link that was Active and sent again the request
\* of an old Pending out-link after the interface manager took the first
\* one, while a young Pending out-link was left alone
C26_Witness ==
    /\ handler.link_in_event_tx /= <<>>
    /\ handler.in_links = <<>>
    /\ \E c, b \in DOMAIN handler.out_links :
          /\ handler.out_links[c].status = "Pending"
          /\ handler.out_links[c].elapsed > 60
          /\ RequestOf(handler.out_links[c]) \in handler.tx
          /\ handler.out_links[b].status = "Pending"
          /\ handler.out_links[b].elapsed = 0
          /\ RequestOf(handler.out_links[b]) \notin handler.tx

\* C27: a keep-alive request (0xFF) is put on the channel only for an Active
\* out-link; handling a request addressed to an in-link puts exactly its
\* response (0xFE) on the channel, and handling a response, or a request for
\* no in-link, puts no packet of the handler's own on the channel.
Emitted == {m \in handler'.tx \ handler.tx : m.tx_type = "Broadcast" /\ m.addr = None}

KeepAliveRequests == {m \in Emitted : m.packet.context = "KeepAlive" /\ m.packet.data = <<255>>}

C27_KeepAlive ==
    [][/\ \A m \in KeepAliveRequests :
             \E d \in DOMAIN handler.out_links :
                 /\ handler.out_links[d].status = "Active"
                 /\ handler.out_links[d].id = m.packet.destination
       /\ \A p \in KeepAlives :
             HandleDataCall(p) =>
                 IF p.data = <<255>> /\ p.destination \in DOMAIN handler.in_links
                 THEN /\ TxBroadcast(None, keep_alive_packet(p.destination, 254)) \in handler'.tx
                      /\ Emitted \subseteq {TxBroadcast(None, keep_alive_packet(p.destination, 254))}
                 ELSE Emitted = {}]_vars

\* an Active out-link has sent a keep-alive request and an in-link has
\* answered one
C27_Witness ==
    /\ \E d \in DOMAIN handler.out_links :
          /\ handler.out_links[d].status = "Active"
          /\ TxBroadcast(None, keep_alive_packet(handler.out_links[d].id, 255)) \in handler.tx
    /\ \E k \in DOMAIN handler.in_links :
          TxBroadcast(None, keep_alive_packet(k, 254)) \in handler.tx

\* C28: an envelope whose sequence is below next_rx_sequence is accepted only
\* if the sequence lies within the wrap window, that is fewer than
\* WINDOW_MAX_FAST sequences ahead of next_rx_sequence modulo 2^16; every
\* other envelope below next_rx_sequence leaves the rx-ring and the delivered
\* messages as they were.
InWrapWindow(sequence, next_rx) == (sequence + U16 - next_rx) % U16 < WINDOW_MAX_FAST

C28_StaleDropped ==
    [][\A id \in Arrivals :
          (Receive(id) /\ id % U16 < next_rx_sequence
                       /\ ~InWrapWindow(id % U16, next_rx_sequence))
              => rx_ring' = rx_ring /\ delivered' = delivered]_vars

\* C29: after every receive() the envelopes of the rx-ring are in strictly
\* ascending order of their sequence numbers, so no two have the same
\* sequence, and the arrival of an envelope whose sequence is in the ring
\* adds nothing to the ring.
RingSequences(ring) == [i \in DOMAIN ring |-> ring[i].sequence[1]]

Ascending(seqs) == \A i \in 1..(Len(seqs) - 1) : seqs[i] < seqs[i + 1]

C29_RingSorted ==
    /\ [](~panicked => Ascending(RingSequences(rx_ring)))
    /\ [][\A id \in Arrivals :
            (Receive(id) /\ ~panicked'
                /\ \E i \in DOMAIN rx_ring : rx_ring[i].sequence = Some(id % U16))
                => /\ Len(rx_ring') <= Len(rx_ring)
                   /\ \A j \in DOMAIN rx_ring' : \E i \in DOMAIN rx_ring : rx_ring'[j] = rx_ring[i]
         ]_vars

\* two envelopes wait in the ring, one of them a sequence that has wrapped
C29_Witness ==
    /\ ~panicked
    /\ Len(rx_ring) >= 2
    /\ rx_ring[1].sequence[1] < WINDOW_MAX
    /\ rx_ring[Len(rx_ring)].sequence[1] > SEQ_MAX - WINDOW_MAX

\* C30: when the envelope with sequence next_rx_sequence is received, the
\* receive() call delivers it and every buffered envelope that follows it
\* without a gap, modulo 2^16: afterwards the rx-ring holds no envelope with
\* the sequence the receiver awaits next.
Awaited(ring, next_rx) == {i \in DOMAIN ring : ring[i].sequence = Some(next_rx)}

C30_ContiguousDelivered ==
    [][\A id \in Arrivals :
          (Receive(id) /\ id % U16 = next_rx_sequence /\ ~panicked')
              => /\ Len(delivered') > Len(delivered)
                 /\ Awaited(rx_ring', next_rx_sequence') = {}]_vars

\* C31: a delivery with a round-trip time in the medium band (0.18 s < rtt
\* <= 1.45 s) increments medium_rate_rounds; window_max and window_min become
\* 12 and 5 at the tenth delivery in a row in the medium band and 48 and 16
\* at the tenth delivery in a row in the fast band, and at no other delivery
\* do they change.
Limits(p) == <<p.window_max, p.window_min>>

C31_WindowBands ==
    [][\A rtt \in AdjRtts :
          AdjustParams(rtt) =>
             /\ band(rtt) = "medium" =>
                    adj_params'.medium_rate_rounds = adj_params.medium_rate_rounds + 1
             /\ (adj_runs'.medium = FAST_RATE_THRESHOLD /\ adj_params.window_max < WINDOW_MAX_MEDIUM)
                    => Limits(adj_params') = <<WINDOW_MAX_MEDIUM, WINDOW_MIN_LIMIT_MEDIUM>>
             /\ (adj_runs'.fast = FAST_RATE_THRESHOLD /\ adj_params.window_max < WINDOW_MAX_FAST)
                    => Limits(adj_params') = <<WINDOW_MAX_FAST, WINDOW_MIN_LIMIT_FAST>>
             /\ Limits(adj_params') /= Limits(adj_params)
                    => \/ adj_runs'.medium = FAST_RATE_THRESHOLD
                       \/ adj_runs'.fast = FAST_RATE_THRESHOLD]_vars

\* C32: a timeout of a packet whose envelope has retries left adds one to the
\* envelope's tries, has the outlet resend the packet, takes one from window
\* if window > window_min, and takes one from window_max if window_max >
\* window_min + window_flexibility, whether or not window was decremented.
C32_TimeoutShrinks ==
    [][\A rtt \in AdjRtts :
          (AdjTimeout(rtt) /\ adj_ring[1].tries <= adj_params.max_tries) =>
             LET p == adj_params
             IN  /\ Len(adj_ring') = 1
                 /\ adj_ring'[1] = [adj_ring[1] EXCEPT !.tries = @ + 1]
                 /\ adj_out'.resent /\ ~adj_out'.timed_out
                 /\ adj_params'.window =
                        IF p.window > p.window_min THEN p.window - 1 ELSE p.window
                 /\ adj_params'.window_max =
                        IF p.window_max > p.window_min + p.window_flexibility
                        THEN p.window_max - 1 ELSE p.window_max]_vars

\* C33: a delivery signal for packet p removes from the tx-ring the one
\* envelope that carries p and leaves every other envelope in its place, and
\* raises window by 1 if and only if window < window_max; a delivery signal
\* for a packet that no envelope carries changes neither ring nor params.
Carriers(ring, packet) == {i \in DOMAIN ring : ring[i].packet = Some(packet)}

Without(ring, i) ==
    [j \in 1..(Len(ring) - 1) |-> IF j < i THEN ring[j] ELSE ring[j + 1]]

HeaderType(raw) == from_le_bytes(raw[1], raw[2])

Dropped ==
    /\ ~panicked'
    /\ rx_ring' = rx_ring
    /\ next_rx_sequence' = next_rx_sequence
    /\ delivered' = delivered

C34_MalformedDropped ==
    [][\A raw \in MalformedRaws :
          ReceiveRaw(raw) =>
             IF Len(raw) < 6 \/ HeaderType(raw) \notin RegisteredTypes
             THEN Dropped
             ELSE ~panicked' /\ Len(delivered') = Len(delivered) + 1]_vars

\* C35: whatever the interleaving of the callbacks and the sends, a removal
\* by pop_tx_from_ring takes from the tx-ring no envelope but the one the
\* callback was asked to remove.
InRing(ring) == {ring[i] : i \in DOMAIN ring}

C35_PopsOnlyTarget ==
    [][\A t \in Callbacks :
          PopRemove(t) => InRing(pop_ring) \ InRing(pop_ring') \subseteq {pop_target[t][1]}]_vars

\* C36: the link a caller of link(dest) got back is, as long as it is not
\* Closed, the link stored in out_links for dest; so two callers for one
\* destination hold the same link and one LinkRequest was sent for it.
C36_OneLinkPerDestination ==
    \A c \in Callers :
        (race_pc[c] = "returned" /\ race_status[race_link[c][1]] /= "Closed")
            => race_out_links[race_dest[c][1]] = race_link[c]

\* C37: a packet the transport sent and still has in its packet cache, when
\* it arrives back, changes nothing: the handler (cache, tables, links,
\* outgoing messages, events) and the packet task are as before (Announce
\* and the LinkRequestProof exception aside).
Echo(p) ==
    /\ p.packet_type /= "Announce"
    /\ ~FilterRecord(handler, p, FALSE).exception
    /\ packet_hash(p) \in DOMAIN handler.packet_cache
    /\ \E m \in handler.tx : packet_hash(m.packet) = packet_hash(p)

C37_EchoIgnored ==
    [][\A st \in InLinkStatusAfterProve :
          (PacketTaskStep(st) /\ Echo(Head(rx_queue).packet))
              => (handler' = handler /\ packet_task' = packet_task)]_vars

\* C38: a Data packet for a Link destination with context KeepAlive and an
\* empty payload, admitted by the filter, is dropped: nothing is answered or
\* forwarded for it, no event is emitted, and the packet task goes on.
EmptyKeepAlive(p) ==
    /\ p.packet_type = "Data"
    /\ p.destination_type = "Link"
    /\ p.context = "KeepAlive"
    /\ p.data = <<>>

C38_EmptyKeepAliveDropped ==
    [][\A st \in InLinkStatusAfterProve :
          (/\ PacketTaskStep(st)
           /\ EmptyKeepAlive(Head(rx_queue).packet)
           /\ packet_hash(Head(rx_queue).packet) \notin DOMAIN handler.packet_cache)
              => packet_task' = "running"]_vars

\* C39: decode returns a request for a (destination, tag) pair at most
\* once, and data of ADDRESS_HASH_SIZE bytes or fewer returns None and adds
\* nothing to the cache.
C39_OncePerTag ==
    /\ \A i, j \in DOMAIN pr_returned : pr_returned[i] = pr_returned[j] => i = j
    /\ (pr_last.called /\ Len(pr_last.data) <= ADDRESS_HASH_SIZE)
           => (pr_last.request = None /\ pr_cache = pr_last.before)

\* a request was returned, and a later well-formed request with the same
\* destination and tag, sent through a transport, got None
C39_Witness ==
    /\ pr_last.called
    /\ Len(pr_last.data) > 2 * ADDRESS_HASH_SIZE
    /\ pr_last.request = None
    /\ \E i \in DOMAIN pr_returned :
           /\ pr_returned[i][1] = Slice(pr_last.data, 0, ADDRESS_HASH_SIZE)
           /\ pr_returned[i][2] = Slice(pr_last.data, 2 * ADDRESS_HASH_SIZE,
                                         Len(pr_last.data))

\* C40: for a tag of 1 to ADDRESS_HASH_SIZE bytes, decoding the data of the
\* packet generate(destination, tag) returned gives back the destination,
\* the transport id of the generating side (none if it has none) and the tag.
C40_GenerateDecode ==
    (is_some(pr_packet) /\ Len(pr_asked[1].tag) \in 1..ADDRESS_HASH_SIZE)
        => PathRequest_decode(pr_packet[1].data)
               = Some([destination |-> pr_asked[1].destination,
                       requesting_transport |-> pr_transport_id,
                       tag_bytes |-> pr_asked[1].tag])

\* a request with a transport id and a tag of full length was generated and
\* its data decoded
C40_Witness ==
    /\ is_some(pr_packet)
    /\ is_some(pr_transport_id)
    /\ Len(pr_asked[1].tag) = ADDRESS_HASH_SIZE
    /\ pr_last.called
    /\ pr_last.data = pr_packet[1].data
    /\ is_some(pr_last.request)

====
